---- MODULE Spec2Model ----
(***************************************************************************)
(* A state-machine model of the CosmicTemple progression tracker:          *)
(* the JSON entity store (app/data_manager.py, app/settings_manager.py),   *)
(* the screens that mutate it (app/screens.py) and the export/import       *)
(* consolidation.                                                          *)
(*                                                                         *)
(* Representation.  A file on disk is a record                             *)
(*     [exists, shape, items, map]                                         *)
(* where shape is the JSON shape of its content ("list", "object",         *)
(* "scalar"), "garbage" for text that is not JSON, "torn" for a            *)
(* partially written file and "none" for an absent file.  A JSON list      *)
(* keeps its elements in items, a JSON object keeps its members in map     *)
(* (a function from member names to values).  Calendar dates are day       *)
(* numbers; the ISO strings the program stores are produced by Iso.        *)
(***************************************************************************)
EXTENDS Integers, Sequences, FiniteSets, TLC

VARIABLES
    disk,       \* file name -> file content (the working directory)
    mem,        \* screen name -> the collection that screen object holds
    today,      \* datetime.date.today() as a day number
    lastOp,     \* the last handler run: its input, its writes, its outcome
    ops,        \* number of handlers run so far
    streakHist, \* history of the mission-streak updates of the current day
    reflHist,   \* history of the reflections accepted so far
    xfer,       \* history of the export / empty / import scenario
    wr,         \* the file write in progress, and whether the process crashed
    app,        \* the App object: current_theme_name, and whether a gate is mounted
    loreHist    \* history of the daily lore snippets the gate has shown

vars == <<disk, mem, today, lastOp, ops, streakHist, reflHist, xfer, wr, app, loreHist>>

----------------------------------------------------------------------------
(* Bounds of the exploration *)

MaxOps == 4
MaxDay == 3

----------------------------------------------------------------------------
(* JSON values and files *)

EmptyMap == [k \in {} |-> 0]

Put(m, k, v) == [j \in DOMAIN m \cup {k} |-> IF j = k THEN v ELSE m[j]]

Get(m, k, default) == IF k \in DOMAIN m THEN m[k] ELSE default

Absent == [exists |-> FALSE, shape |-> "none", items |-> <<>>, map |-> EmptyMap]

ListDoc(s) == [exists |-> TRUE, shape |-> "list", items |-> s, map |-> EmptyMap]

ObjDoc(m) == [exists |-> TRUE, shape |-> "object", items |-> <<>>, map |-> m]

ScalarDoc == [exists |-> TRUE, shape |-> "scalar", items |-> <<>>, map |-> EmptyMap]

GarbageDoc == [exists |-> TRUE, shape |-> "garbage", items |-> <<>>, map |-> EmptyMap]

MISSIONS_FILE == "missions.json"
SKILLS_FILE == "skills.json"
ARTIFACTS_FILE == "artifacts.json"
REFLECTIONS_FILE == "reflections.json"
CHALLENGES_FILE == "challenges.json"
PROFILE_FILE == "profile.json"
LORE_FILE == "lore.json"
ORACLES_FILE == "oracles.json"
BADGES_FILE == "badges.json"
QUESTS_FILE == "quests.json"
EXPORT_FILE == "export.json"
SETTINGS_FILE == "settings.json"

Files ==
    {MISSIONS_FILE, SKILLS_FILE, ARTIFACTS_FILE, REFLECTIONS_FILE,
     CHALLENGES_FILE, PROFILE_FILE, LORE_FILE, ORACLES_FILE, BADGES_FILE,
     QUESTS_FILE, EXPORT_FILE, SETTINGS_FILE}

(* date.isoformat(): the table is the calendar, day 0 being 2024-04-30 and *)
(* its first entry the day before *)
IsoTable ==
    <<"2024-04-29", "2024-04-30", "2024-05-01", "2024-05-02", "2024-05-03", "2024-05-04",
      "2024-05-05", "2024-05-06", "2024-05-07", "2024-05-08", "2024-05-09">>

Iso(d) == IsoTable[d + 2]

(* Python None, and JSON null *)
None == "<None>"

----------------------------------------------------------------------------
(* app/models.py: the dataclasses.  Building a dataclass from the members  *)
(* of a JSON object m (keyword expansion) raises TypeError when m has a     *)
(* member that is no field, or lacks a field that has no default; a field *)
(* with a default is filled in.                                            *)

MissionFields == {"title", "description", "completed"}
MissionDefaults == [completed |-> FALSE]

SkillFields == {"name", "level", "progress"}
SkillDefaults == [level |-> 1, progress |-> 0]

ArtifactFields == {"name", "collected"}
ArtifactDefaults == [collected |-> FALSE]

ChallengeFields == {"title", "deadline", "progress", "goal"}
ChallengeDefaults == EmptyMap

ProfileFields == {"name", "title", "avatar_color"}
ProfileDefaults == [title |-> "Stargazer", avatar_color |-> "white"]

BadgeFields == {"title", "description"}
BadgeDefaults == EmptyMap

QuestFields == {"name", "tasks", "completed"}
QuestDefaults == [completed |-> FALSE]

Accepts(m, fields, defaults) ==
    /\ DOMAIN m \subseteq fields
    /\ (fields \ DOMAIN defaults) \subseteq DOMAIN m

FromDict(m, fields, defaults) ==
    [k \in fields |-> IF k \in DOMAIN m THEN m[k] ELSE defaults[k]]

(* the list comprehension building one dataclass per element of the parsed *)
(* JSON value j *)
FromList(j, fields, defaults) ==
    CASE j.shape = "list" ->
            IF \A i \in 1..Len(j.items) : Accepts(j.items[i], fields, defaults)
            THEN [err |-> "",
                  val |-> [i \in 1..Len(j.items) |->
                              FromDict(j.items[i], fields, defaults)]]
            ELSE [err |-> "TypeError", val |-> <<>>]
      [] j.shape = "object" ->
            \* iterating a dict yields its keys, and keyword expansion of a
            \* string raises; an empty dict yields nothing
            IF DOMAIN j.map = {}
            THEN [err |-> "", val |-> <<>>]
            ELSE [err |-> "TypeError", val |-> <<>>]
      [] OTHER -> [err |-> "TypeError", val |-> <<>>]

----------------------------------------------------------------------------
(* app/data_manager.py: load_* and save_* *)

LoadList(f, fields, defaults) ==
    IF ~f.exists THEN [err |-> "", val |-> <<>>]
    ELSE IF f.shape \in {"garbage", "torn"}
         THEN [err |-> "JSONDecodeError", val |-> <<>>]
         ELSE FromList(f, fields, defaults)

load_missions(d) == LoadList(d[MISSIONS_FILE], MissionFields, MissionDefaults)
load_skills(d) == LoadList(d[SKILLS_FILE], SkillFields, SkillDefaults)
load_artifacts(d) == LoadList(d[ARTIFACTS_FILE], ArtifactFields, ArtifactDefaults)
load_challenges(d) == LoadList(d[CHALLENGES_FILE], ChallengeFields, ChallengeDefaults)
load_achievements(d) == LoadList(d[BADGES_FILE], BadgeFields, BadgeDefaults)
load_quests(d) == LoadList(d[QUESTS_FILE], QuestFields, QuestDefaults)

(* json.dump([m.__dict__ for m in coll], f): every field of every record *)
SaveList(d, file, coll) == [d EXCEPT ![file] = ListDoc(coll)]

save_missions(d, coll) == SaveList(d, MISSIONS_FILE, coll)
save_skills(d, coll) == SaveList(d, SKILLS_FILE, coll)
save_artifacts(d, coll) == SaveList(d, ARTIFACTS_FILE, coll)
save_challenges(d, coll) == SaveList(d, CHALLENGES_FILE, coll)
save_achievements(d, coll) == SaveList(d, BADGES_FILE, coll)
save_quests(d, coll) == SaveList(d, QUESTS_FILE, coll)

(* load_profile: None for an absent file, else Profile from the members of *)
(* the parsed JSON value *)
load_profile(d) ==
    LET f == d[PROFILE_FILE] IN
    IF ~f.exists THEN [err |-> "", none |-> TRUE, val |-> EmptyMap]
    ELSE IF f.shape \in {"garbage", "torn"}
         THEN [err |-> "JSONDecodeError", none |-> TRUE, val |-> EmptyMap]
         ELSE IF f.shape = "object" /\ Accepts(f.map, ProfileFields, ProfileDefaults)
              THEN [err |-> "", none |-> FALSE,
                    val |-> FromDict(f.map, ProfileFields, ProfileDefaults)]
              ELSE [err |-> "TypeError", none |-> TRUE, val |-> EmptyMap]

save_profile(d, profile) == [d EXCEPT ![PROFILE_FILE] = ObjDoc(profile)]

(* load_lore_snippets: the parsed value when it is a list, [] otherwise *)
load_lore_snippets(d) ==
    LET f == d[LORE_FILE] IN
    IF ~f.exists THEN [err |-> "", val |-> <<>>]
    ELSE IF f.shape \in {"garbage", "torn"}
         THEN [err |-> "JSONDecodeError", val |-> <<>>]
         ELSE IF f.shape = "list" THEN [err |-> "", val |-> f.items]
              ELSE [err |-> "", val |-> <<>>]

(* a loader that returns json.load(f) as it is, whatever its shape, and {} *)
(* for an absent file *)
LoadJson(f) ==
    IF ~f.exists THEN [err |-> "", shape |-> "object", val |-> EmptyMap, items |-> <<>>]
    ELSE IF f.shape \in {"garbage", "torn"}
         THEN [err |-> "JSONDecodeError", shape |-> f.shape, val |-> EmptyMap, items |-> <<>>]
         ELSE [err |-> "", shape |-> f.shape, val |-> f.map, items |-> f.items]

load_reflections(d) == LoadJson(d[REFLECTIONS_FILE])
load_oracles(d) == LoadJson(d[ORACLES_FILE])

save_reflections(d, m) == [d EXCEPT ![REFLECTIONS_FILE] = ObjDoc(m)]

(* app/settings_manager.py *)
load_settings(d) == LoadJson(d[SETTINGS_FILE])

save_settings(d, m) == [d EXCEPT ![SETTINGS_FILE] = ObjDoc(m)]

----------------------------------------------------------------------------
(* Screen objects *)

Screens ==
    {"missions", "skills", "artifacts", "crafts", "challenges", "profile",
     "quests"}

Closed == [open |-> FALSE, items |-> <<>>, rec |-> EmptyMap]

Holding(coll) == [open |-> TRUE, items |-> coll, rec |-> EmptyMap]

NoOp == [op |-> "", arg |-> 0, text |-> <<>>, writes |-> <<>>, err |-> "",
         msg |-> "", day |-> 0, pre |-> [f \in Files |-> Absent],
         preMem |-> [s \in Screens |-> Closed]]

Op(name, arg, text, writes, err, msg) ==
    [op |-> name, arg |-> arg, text |-> text, writes |-> writes, err |-> err,
     msg |-> msg, day |-> today, pre |-> disk, preMem |-> mem]

InRange(idx, n) == 0 <= idx /\ idx < n

(* one more handler has run; MaxOps bounds the length of the explored runs *)
Tick == ops < MaxOps /\ ops' = ops + 1

pop_screen(s) ==
    /\ Tick
    /\ mem[s].open
    /\ mem' = [mem EXCEPT ![s] = Closed]
    /\ lastOp' = Op("pop_screen", 0, <<>>, <<>>, "", "")
    /\ UNCHANGED <<disk, today, streakHist, reflHist, xfer, wr, app, loreHist>>

----------------------------------------------------------------------------
(* SkillTreesScreen *)

default_skills ==
    <<[name |-> "Fitness", level |-> 1, progress |-> 20],
      [name |-> "Coding", level |-> 2, progress |-> 50],
      [name |-> "Writing", level |-> 1, progress |-> 10]>>

(* SkillTreesScreen.__init__ *)
SkillTreesScreen ==
    /\ Tick
    /\ ~mem["skills"].open
    /\ LET r == load_skills(disk) IN
       IF r.err # ""
       THEN /\ lastOp' = Op("SkillTreesScreen", 0, <<>>, <<>>, r.err, "")
            /\ UNCHANGED <<disk, mem>>
       ELSE IF r.val = <<>>
            THEN /\ mem' = [mem EXCEPT !["skills"] = Holding(default_skills)]
                 /\ disk' = save_skills(disk, default_skills)
                 /\ lastOp' = Op("SkillTreesScreen", 0, <<>>, <<SKILLS_FILE>>, "", "")
            ELSE /\ mem' = [mem EXCEPT !["skills"] = Holding(r.val)]
                 /\ lastOp' = Op("SkillTreesScreen", 0, <<>>, <<>>, "", "")
                 /\ UNCHANGED disk
    /\ UNCHANGED <<today, streakHist, reflHist, xfer, wr, app, loreHist>>

SkillIncrement == 25
SkillFull == 100

(* the body of action_level_up_skill on one skill *)
BuggyLevelUpCarry(s) ==
    IF s.progress + SkillIncrement >= SkillFull
    THEN [s EXCEPT !.level = @ + 1,
                   !.progress = s.progress + SkillIncrement - SkillFull]
    ELSE [s EXCEPT !.progress = @ + SkillIncrement]

LevelUp(s) ==
    IF s.progress + SkillIncrement >= SkillFull
    THEN [s EXCEPT !.level = @ + 1, !.progress = 0]
    ELSE [s EXCEPT !.progress = @ + SkillIncrement]

action_level_up_skill(number) ==
    /\ Tick
    /\ mem["skills"].open
    /\ LET skills == mem["skills"].items
           idx == number - 1
       IN IF InRange(idx, Len(skills))
          THEN LET new == [skills EXCEPT ![idx + 1] = LevelUp(@)] IN
               /\ mem' = [mem EXCEPT !["skills"] = Holding(new)]
               /\ disk' = save_skills(disk, new)
               /\ lastOp' = Op("level_up_skill", number, <<>>, <<SKILLS_FILE>>, "",
                               IF new[idx + 1].level # skills[idx + 1].level
                               THEN "leveled up!" ELSE "progress +25%")
          ELSE /\ lastOp' = Op("level_up_skill", number, <<>>, <<>>, "", "")
               /\ UNCHANGED <<disk, mem>>
    /\ UNCHANGED <<today, streakHist, reflHist, xfer, wr, app, loreHist>>

----------------------------------------------------------------------------
(* MissionsScreen *)

default_missions ==
    <<[title |-> "Stardust Fitness", description |-> "Run for 30 minutes",
       completed |-> FALSE],
      [title |-> "Galaxy Brain Coding", description |-> "Complete a coding tutorial",
       completed |-> FALSE],
      [title |-> "Astral Reading",
       description |-> "Read 20 pages of science/philosophy", completed |-> FALSE]>>

(* MissionsScreen.__init__ *)
MissionsScreen ==
    /\ Tick
    /\ ~mem["missions"].open
    /\ LET r == load_missions(disk) IN
       IF r.err # ""
       THEN /\ lastOp' = Op("MissionsScreen", 0, <<>>, <<>>, r.err, "")
            /\ UNCHANGED <<disk, mem>>
       ELSE IF r.val = <<>>
            THEN /\ mem' = [mem EXCEPT !["missions"] = Holding(default_missions)]
                 /\ disk' = save_missions(disk, default_missions)
                 /\ lastOp' = Op("MissionsScreen", 0, <<>>, <<MISSIONS_FILE>>, "", "")
            ELSE /\ mem' = [mem EXCEPT !["missions"] = Holding(r.val)]
                 /\ lastOp' = Op("MissionsScreen", 0, <<>>, <<>>, "", "")
                 /\ UNCHANGED disk
    /\ UNCHANGED <<today, streakHist, reflHist, xfer, wr, app, loreHist>>

(* the streak computed by update_mission_streak from the stored last day  *)
(* and streak, on day T                                                   *)
BuggyStreakNoSameDayCheck(last, streak, T) ==
    IF last # None
    THEN IF Iso(T - 1) = last THEN streak + 1 ELSE 1
    ELSE 1

BuggyStreakNeverResets(last, streak, T) ==
    IF last = Iso(T) THEN streak ELSE streak + 1

BuggyStreakRestartsEachDay(last, streak, T) ==
    IF last = Iso(T) THEN streak ELSE 1

BuggyStreakStartsAtZero(last, streak, T) ==
    IF last = Iso(T)
    THEN streak
    ELSE IF last # None
         THEN IF Iso(T - 1) = last THEN streak + 1 ELSE 1
         ELSE 0

MissionStreak(last, streak, T) ==
    IF last = Iso(T)
    THEN streak
    ELSE IF last # None
         THEN IF Iso(T - 1) = last THEN streak + 1 ELSE 1
         ELSE 1

(* MissionsScreen.update_mission_streak, as a function of the disk *)
BuggyUpdateStreakAlwaysCounts(d, T) ==
    LET settings == load_settings(d).val
        mission_streak == Get(settings, "mission_streak", 0)
    IN [err |-> "",
        disk |-> save_settings(d,
            Put(Put(settings, "mission_streak", mission_streak + 1),
                "last_mission_day", Iso(T)))]

update_mission_streak(d, T) ==
    LET r == load_settings(d) IN
    IF r.err # "" THEN [err |-> r.err, disk |-> d]
    ELSE IF r.shape # "object" THEN [err |-> "AttributeError", disk |-> d]
    ELSE LET settings == r.val
             last_mission_day == Get(settings, "last_mission_day", None)
             mission_streak == Get(settings, "mission_streak", 0)
             new == MissionStreak(last_mission_day, mission_streak, T)
         IN [err |-> "",
             disk |-> save_settings(d,
                 Put(Put(settings, "mission_streak", new),
                     "last_mission_day", Iso(T)))]

(* the mission_streak and last_mission_day members of settings.json *)
MissionKeys(d) ==
    LET m == d[SETTINGS_FILE].map IN
    [last |-> Get(m, "last_mission_day", None), streak |-> Get(m, "mission_streak", 0)]

BuggyToggleAlwaysUpdatesStreak(number) ==
    /\ Tick
    /\ mem["missions"].open
    /\ LET missions == mem["missions"].items
           idx == number - 1
       IN IF InRange(idx, Len(missions))
          THEN LET new == [missions EXCEPT ![idx + 1].completed = ~@]
                   u == update_mission_streak(save_missions(disk, new), today)
               IN /\ mem' = [mem EXCEPT !["missions"] = Holding(new)]
                  /\ disk' = u.disk
                  /\ lastOp' = Op("toggle_mission", number, <<>>,
                                  <<MISSIONS_FILE, SETTINGS_FILE>>, u.err,
                                  IF new[idx + 1].completed
                                  THEN "completed!" ELSE "is pending now.")
                  /\ streakHist' = [streakHist EXCEPT !.updates = @ + 1,
                                                      !.completed = TRUE,
                                                      !.days = @ \cup {today}]
          ELSE /\ lastOp' = Op("toggle_mission", number, <<>>, <<>>, "", "")
               /\ UNCHANGED <<disk, mem, streakHist>>
    /\ UNCHANGED <<today, reflHist, xfer, wr, app, loreHist>>

action_toggle_mission(number) ==
    /\ Tick
    /\ mem["missions"].open
    /\ LET missions == mem["missions"].items
           idx == number - 1
       IN IF InRange(idx, Len(missions))
          THEN LET new == [missions EXCEPT ![idx + 1].completed = ~@]
                   saved == save_missions(disk, new)
               IN /\ mem' = [mem EXCEPT !["missions"] = Holding(new)]
                  /\ IF new[idx + 1].completed
                     THEN LET u == update_mission_streak(saved, today) IN
                          /\ disk' = u.disk
                          /\ lastOp' = Op("toggle_mission", number, <<>>,
                                          IF u.err = ""
                                          THEN <<MISSIONS_FILE, SETTINGS_FILE>>
                                          ELSE <<MISSIONS_FILE>>,
                                          u.err, "completed!")
                          /\ streakHist' =
                                [streakHist EXCEPT
                                    !.updates = @ + 1,
                                    !.first = IF streakHist.updates = 0
                                              THEN MissionKeys(u.disk) ELSE @,
                                    !.completed = TRUE,
                                    !.days = @ \cup {today}]
                     ELSE /\ disk' = saved
                          /\ lastOp' = Op("toggle_mission", number, <<>>,
                                          <<MISSIONS_FILE>>, "", "is pending now.")
                          /\ UNCHANGED streakHist
          ELSE /\ lastOp' = Op("toggle_mission", number, <<>>, <<>>, "", "")
               /\ UNCHANGED <<disk, mem, streakHist>>
    /\ UNCHANGED <<today, reflHist, xfer, wr, app, loreHist>>

(* midnight: the calendar date advances *)
NextDay ==
    /\ today < MaxDay
    /\ today' = today + 1
    /\ streakHist' = [streakHist EXCEPT !.updates = 0, !.first = MissionKeys(disk),
                                        !.start = MissionKeys(disk),
                                        !.completed = FALSE]
    /\ UNCHANGED <<disk, mem, lastOp, ops, reflHist, xfer, wr, app, loreHist>>

----------------------------------------------------------------------------
(* ArtifactsScreen and CosmicCraftsScreen.  An artifact name is the        *)
(* sequence of the pieces it was put together from, so that renaming       *)
(* (name + "-Enhanced") is Append.                                         *)

default_artifacts ==
    <<[name |-> <<"Nebula Shard">>, collected |-> FALSE],
      [name |-> <<"Meteor Fragment">>, collected |-> TRUE],
      [name |-> <<"Star Cluster">>, collected |-> FALSE]>>

(* ArtifactsScreen.__init__ *)
ArtifactsScreen ==
    /\ Tick
    /\ ~mem["artifacts"].open
    /\ LET r == load_artifacts(disk) IN
       IF r.err # ""
       THEN /\ lastOp' = Op("ArtifactsScreen", 0, <<>>, <<>>, r.err, "")
            /\ UNCHANGED <<disk, mem>>
       ELSE IF r.val = <<>>
            THEN /\ mem' = [mem EXCEPT !["artifacts"] = Holding(default_artifacts)]
                 /\ disk' = save_artifacts(disk, default_artifacts)
                 /\ lastOp' = Op("ArtifactsScreen", 0, <<>>, <<ARTIFACTS_FILE>>, "", "")
            ELSE /\ mem' = [mem EXCEPT !["artifacts"] = Holding(r.val)]
                 /\ lastOp' = Op("ArtifactsScreen", 0, <<>>, <<>>, "", "")
                 /\ UNCHANGED disk
    /\ UNCHANGED <<today, streakHist, reflHist, xfer, wr, app, loreHist>>

BuggyToggleArtifactSavesAlways(number) ==
    /\ Tick
    /\ mem["artifacts"].open
    /\ LET artifacts == mem["artifacts"].items
           idx == number - 1
           new == IF InRange(idx, Len(artifacts))
                  THEN [artifacts EXCEPT ![idx + 1].collected = ~@]
                  ELSE artifacts
       IN /\ mem' = [mem EXCEPT !["artifacts"] = Holding(new)]
          /\ disk' = save_artifacts(disk, new)
          /\ lastOp' = Op("toggle_artifact", number, <<>>, <<ARTIFACTS_FILE>>, "", "")
    /\ UNCHANGED <<today, streakHist, reflHist, xfer, wr, app, loreHist>>

action_toggle_artifact(number) ==
    /\ Tick
    /\ mem["artifacts"].open
    /\ LET artifacts == mem["artifacts"].items
           idx == number - 1
       IN IF InRange(idx, Len(artifacts))
          THEN LET new == [artifacts EXCEPT ![idx + 1].collected = ~@] IN
               /\ mem' = [mem EXCEPT !["artifacts"] = Holding(new)]
               /\ disk' = save_artifacts(disk, new)
               /\ lastOp' = Op("toggle_artifact", number, <<>>, <<ARTIFACTS_FILE>>, "",
                               IF new[idx + 1].collected
                               THEN "is now collected!" ELSE "is now uncollected.")
          ELSE /\ lastOp' = Op("toggle_artifact", number, <<>>, <<>>, "", "")
               /\ UNCHANGED <<disk, mem>>
    /\ UNCHANGED <<today, streakHist, reflHist, xfer, wr, app, loreHist>>

(* CosmicCraftsScreen.__init__: loads the artifacts, and seeds nothing *)
CosmicCraftsScreen ==
    /\ Tick
    /\ ~mem["crafts"].open
    /\ LET r == load_artifacts(disk) IN
       IF r.err # ""
       THEN /\ lastOp' = Op("CosmicCraftsScreen", 0, <<>>, <<>>, r.err, "")
            /\ UNCHANGED mem
       ELSE /\ mem' = [mem EXCEPT !["crafts"] = Holding(r.val)]
            /\ lastOp' = Op("CosmicCraftsScreen", 0, <<>>, <<>>, "", "")
    /\ UNCHANGED <<disk, today, streakHist, reflHist, xfer, wr, app, loreHist>>

BuggyRenameResetsCollected(number) ==
    /\ Tick
    /\ mem["crafts"].open
    /\ LET artifacts == mem["crafts"].items
           idx == number - 1
       IN IF InRange(idx, Len(artifacts))
          THEN LET new == [artifacts EXCEPT
                              ![idx + 1] = [name |-> Append(@.name, "-Enhanced"),
                                            collected |-> FALSE]]
               IN /\ mem' = [mem EXCEPT !["crafts"] = Holding(new)]
                  /\ disk' = save_artifacts(disk, new)
                  /\ lastOp' = Op("rename_artifact", number, <<>>, <<ARTIFACTS_FILE>>,
                                  "", "Renamed to")
          ELSE /\ lastOp' = Op("rename_artifact", number, <<>>, <<>>, "", "")
               /\ UNCHANGED <<disk, mem>>
    /\ UNCHANGED <<today, streakHist, reflHist, xfer, wr, app, loreHist>>

action_rename_artifact(number) ==
    /\ Tick
    /\ mem["crafts"].open
    /\ LET artifacts == mem["crafts"].items
           idx == number - 1
       IN IF InRange(idx, Len(artifacts))
          THEN LET new == [artifacts EXCEPT ![idx + 1].name = Append(@, "-Enhanced")] IN
               /\ mem' = [mem EXCEPT !["crafts"] = Holding(new)]
               /\ disk' = save_artifacts(disk, new)
               /\ lastOp' = Op("rename_artifact", number, <<>>, <<ARTIFACTS_FILE>>, "",
                               "Renamed to")
          ELSE /\ lastOp' = Op("rename_artifact", number, <<>>, <<>>, "", "")
               /\ UNCHANGED <<disk, mem>>
    /\ UNCHANGED <<today, streakHist, reflHist, xfer, wr, app, loreHist>>

----------------------------------------------------------------------------
(* ChallengesScreen *)

ExampleDeadlineDays == 2
NewDeadlineDays == 3
ExampleGoal == 2
NewGoal == 3

(* ChallengesScreen.__init__ *)
ChallengesScreen ==
    /\ Tick
    /\ ~mem["challenges"].open
    /\ LET r == load_challenges(disk)
           example == [title |-> "Complete 2 Missions",
                       deadline |-> Iso(today + ExampleDeadlineDays),
                       progress |-> 0, goal |-> ExampleGoal]
       IN
       IF r.err # ""
       THEN /\ lastOp' = Op("ChallengesScreen", 0, <<>>, <<>>, r.err, "")
            /\ UNCHANGED <<disk, mem>>
       ELSE IF r.val = <<>>
            THEN /\ mem' = [mem EXCEPT !["challenges"] = Holding(<<example>>)]
                 /\ disk' = save_challenges(disk, <<example>>)
                 /\ lastOp' = Op("ChallengesScreen", 0, <<>>, <<CHALLENGES_FILE>>, "", "")
            ELSE /\ mem' = [mem EXCEPT !["challenges"] = Holding(r.val)]
                 /\ lastOp' = Op("ChallengesScreen", 0, <<>>, <<>>, "", "")
                 /\ UNCHANGED disk
    /\ UNCHANGED <<today, streakHist, reflHist, xfer, wr, app, loreHist>>

action_new_challenge ==
    /\ Tick
    /\ mem["challenges"].open
    /\ LET new_c == [title |-> "New Challenge",
                     deadline |-> Iso(today + NewDeadlineDays),
                     progress |-> 0, goal |-> NewGoal]
           new == Append(mem["challenges"].items, new_c)
       IN /\ mem' = [mem EXCEPT !["challenges"] = Holding(new)]
          /\ disk' = save_challenges(disk, new)
          /\ lastOp' = Op("new_challenge", 0, <<>>, <<CHALLENGES_FILE>>, "",
                          "Added a new challenge.")
    /\ UNCHANGED <<today, streakHist, reflHist, xfer, wr, app, loreHist>>

BuggyToggleChallengeCapsAtGoal(number) ==
    /\ Tick
    /\ mem["challenges"].open
    /\ LET challenges == mem["challenges"].items
           idx == number - 1
       IN IF InRange(idx, Len(challenges))
          THEN LET new == [challenges EXCEPT
                              ![idx + 1].progress = IF @ < challenges[idx + 1].goal
                                                    THEN @ + 1 ELSE @]
               IN /\ mem' = [mem EXCEPT !["challenges"] = Holding(new)]
                  /\ disk' = save_challenges(disk, new)
                  /\ lastOp' = Op("toggle_challenge", number, <<>>, <<CHALLENGES_FILE>>,
                                  "", "progress")
          ELSE /\ lastOp' = Op("toggle_challenge", number, <<>>, <<>>, "", "")
               /\ UNCHANGED <<disk, mem>>
    /\ UNCHANGED <<today, streakHist, reflHist, xfer, wr, app, loreHist>>

action_toggle_challenge(number) ==
    /\ Tick
    /\ mem["challenges"].open
    /\ LET challenges == mem["challenges"].items
           idx == number - 1
       IN IF InRange(idx, Len(challenges))
          THEN LET new == [challenges EXCEPT ![idx + 1].progress = @ + 1] IN
               /\ mem' = [mem EXCEPT !["challenges"] = Holding(new)]
               /\ disk' = save_challenges(disk, new)
               /\ lastOp' = Op("toggle_challenge", number, <<>>, <<CHALLENGES_FILE>>, "",
                               IF new[idx + 1].progress >= new[idx + 1].goal
                               THEN "completed!" ELSE "progress")
          ELSE /\ lastOp' = Op("toggle_challenge", number, <<>>, <<>>, "", "")
               /\ UNCHANGED <<disk, mem>>
    /\ UNCHANGED <<today, streakHist, reflHist, xfer, wr, app, loreHist>>

----------------------------------------------------------------------------
(* QuestsScreen *)

sample_quest ==
    [name |-> "Pilgrim of Stars",
     tasks |-> <<"Observe night sky 3 times", "Write a cosmic poem">>,
     completed |-> FALSE]

(* QuestsScreen.__init__ *)
QuestsScreen ==
    /\ Tick
    /\ ~mem["quests"].open
    /\ LET r == load_quests(disk) IN
       IF r.err # ""
       THEN /\ lastOp' = Op("QuestsScreen", 0, <<>>, <<>>, r.err, "")
            /\ UNCHANGED <<disk, mem>>
       ELSE IF r.val = <<>>
            THEN /\ mem' = [mem EXCEPT !["quests"] = Holding(<<sample_quest>>)]
                 /\ disk' = save_quests(disk, <<sample_quest>>)
                 /\ lastOp' = Op("QuestsScreen", 0, <<>>, <<QUESTS_FILE>>, "", "")
            ELSE /\ mem' = [mem EXCEPT !["quests"] = Holding(r.val)]
                 /\ lastOp' = Op("QuestsScreen", 0, <<>>, <<>>, "", "")
                 /\ UNCHANGED disk
    /\ UNCHANGED <<today, streakHist, reflHist, xfer, wr, app, loreHist>>

BuggyStartQuestToggles(number) ==
    /\ Tick
    /\ mem["quests"].open
    /\ LET quests == mem["quests"].items
           idx == number - 1
       IN IF InRange(idx, Len(quests))
          THEN LET new == [quests EXCEPT ![idx + 1].completed = ~@] IN
               /\ mem' = [mem EXCEPT !["quests"] = Holding(new)]
               /\ disk' = save_quests(disk, new)
               /\ lastOp' = Op("start_quest", number, <<>>, <<QUESTS_FILE>>, "",
                               "You completed quest")
          ELSE /\ lastOp' = Op("start_quest", number, <<>>, <<>>, "", "")
               /\ UNCHANGED <<disk, mem>>
    /\ UNCHANGED <<today, streakHist, reflHist, xfer, wr, app, loreHist>>

action_start_quest(number) ==
    /\ Tick
    /\ mem["quests"].open
    /\ LET quests == mem["quests"].items
           idx == number - 1
       IN IF InRange(idx, Len(quests))
          THEN LET new == [quests EXCEPT ![idx + 1].completed = TRUE] IN
               /\ mem' = [mem EXCEPT !["quests"] = Holding(new)]
               /\ disk' = save_quests(disk, new)
               /\ lastOp' = Op("start_quest", number, <<>>, <<QUESTS_FILE>>, "",
                               "You completed quest")
          ELSE /\ lastOp' = Op("start_quest", number, <<>>, <<>>, "", "")
               /\ UNCHANGED <<disk, mem>>
    /\ UNCHANGED <<today, streakHist, reflHist, xfer, wr, app, loreHist>>

----------------------------------------------------------------------------
(* ReflectionScreen.  The text of the input widget is a sequence of        *)
(* characters.                                                             *)

Whitespace == {" ", "\t"}

RECURSIVE LStrip(_)
LStrip(s) ==
    IF s # <<>> /\ Head(s) \in Whitespace THEN LStrip(Tail(s)) ELSE s

RECURSIVE RStrip(_)
RStrip(s) ==
    IF s # <<>> /\ s[Len(s)] \in Whitespace
    THEN RStrip(SubSeq(s, 1, Len(s) - 1))
    ELSE s

(* str.strip() *)
Strip(s) == RStrip(LStrip(s))

(* content = self.reflection_input.value.strip() *)
BuggyContentUnstripped(text) == text

ReflectionContent(text) == Strip(text)

(* reflections[new_reflection_date] = content *)
BuggyKeepFirstEntry(reflections, date, content) ==
    IF date \in DOMAIN reflections THEN reflections ELSE Put(reflections, date, content)

SetReflection(reflections, date, content) == Put(reflections, date, content)

Truthy(v) == v # None /\ v # ""

BuggyReflectStreakKeepsOnBlankDate(last, streak, T) ==
    IF last = Iso(T)
    THEN streak
    ELSE IF Truthy(last)
         THEN IF Iso(T - 1) = last THEN streak + 1 ELSE 1
         ELSE streak + 1

(* the streak computed by update_reflection_streak *)
ReflectStreak(last, streak, T) ==
    IF last = Iso(T)
    THEN streak
    ELSE IF Truthy(last)
         THEN IF Iso(T - 1) = last THEN streak + 1 ELSE 1
         ELSE 1

(* ReflectionScreen.update_reflection_streak, as a function of the disk *)
update_reflection_streak(d, T) ==
    LET r == load_settings(d) IN
    IF r.err # "" THEN [err |-> r.err, disk |-> d]
    ELSE IF r.shape # "object" THEN [err |-> "AttributeError", disk |-> d]
    ELSE LET settings == r.val
             last_reflect_day == Get(settings, "last_reflect_day", None)
             reflect_streak == Get(settings, "reflect_streak", 0)
             new == ReflectStreak(last_reflect_day, reflect_streak, T)
         IN [err |-> "",
             disk |-> save_settings(d,
                 Put(Put(settings, "reflect_streak", new),
                     "last_reflect_day", Iso(T)))]

action_record_reflection(text) ==
    /\ Tick
    /\ LET content == ReflectionContent(text) IN
       IF content # <<>>
       THEN LET r == load_reflections(disk) IN
            IF r.err # "" \/ r.shape # "object"
            THEN /\ lastOp' = Op("record_reflection", 0, text, <<>>,
                                 IF r.err # "" THEN r.err ELSE "TypeError", "")
                 /\ UNCHANGED <<disk, reflHist>>
            ELSE LET saved == save_reflections(disk,
                                 SetReflection(r.val, Iso(today), content))
                     u == update_reflection_streak(saved, today)
                 IN /\ disk' = u.disk
                    /\ lastOp' = Op("record_reflection", 0, text,
                                    IF u.err = ""
                                    THEN <<REFLECTIONS_FILE, SETTINGS_FILE>>
                                    ELSE <<REFLECTIONS_FILE>>,
                                    u.err, "Reflection saved!")
                    /\ reflHist' = [reflHist EXCEPT !.log =
                                       Append(@, [date |-> Iso(today), text |-> text])]
       ELSE /\ lastOp' = Op("record_reflection", 0, text, <<>>, "",
                            "No content to save.")
            /\ UNCHANGED <<disk, reflHist>>
    /\ UNCHANGED <<mem, today, streakHist, xfer, wr, app, loreHist>>

----------------------------------------------------------------------------
(* Export and import (data_manager.py and ExportImportScreen) *)

EntityFiles ==
    {MISSIONS_FILE, SKILLS_FILE, ARTIFACTS_FILE, REFLECTIONS_FILE,
     CHALLENGES_FILE, PROFILE_FILE, BADGES_FILE, QUESTS_FILE}

(* what the loaders return for each entity kind *)
Collections(d) ==
    [missions |-> load_missions(d),
     skills |-> load_skills(d),
     artifacts |-> load_artifacts(d),
     reflections |-> load_reflections(d),
     challenges |-> load_challenges(d),
     profile |-> load_profile(d),
     badges |-> load_achievements(d),
     quests |-> load_quests(d)]

(* export_all_data: every loader runs before export.json is opened, so a   *)
(* loader that raises leaves the disk as it was                            *)
export_all_data(d) ==
    LET c == Collections(d)
        failed == {k \in DOMAIN c : c[k].err # ""}
    IN IF failed # {}
       THEN [err |-> c[CHOOSE k \in failed : TRUE].err, disk |-> d]
       ELSE LET export_data ==
                  [missions |-> ListDoc(c.missions.val),
                   skills |-> ListDoc(c.skills.val),
                   artifacts |-> ListDoc(c.artifacts.val),
                   reflections |-> [exists |-> TRUE, shape |-> c.reflections.shape,
                                    items |-> c.reflections.items,
                                    map |-> c.reflections.val],
                   challenges |-> ListDoc(c.challenges.val),
                   profile |-> IF c.profile.none THEN ObjDoc(EmptyMap)
                               ELSE ObjDoc(c.profile.val),
                   badges |-> ListDoc(c.badges.val),
                   quests |-> ListDoc(c.quests.val)]
            IN [err |-> "", disk |-> [d EXCEPT ![EXPORT_FILE] = ObjDoc(export_data)]]

(* the order in which import_all_data handles the sections *)
ImportOrder ==
    <<"missions", "skills", "artifacts", "reflections", "challenges", "profile",
      "badges", "quests">>

SectionFile(name) ==
    CASE name = "missions" -> MISSIONS_FILE
      [] name = "skills" -> SKILLS_FILE
      [] name = "artifacts" -> ARTIFACTS_FILE
      [] name = "reflections" -> REFLECTIONS_FILE
      [] name = "challenges" -> CHALLENGES_FILE
      [] name = "profile" -> PROFILE_FILE
      [] name = "badges" -> BADGES_FILE
      [] name = "quests" -> QUESTS_FILE

(* one "if name in data:" block of import_all_data: the dataclasses are    *)
(* built first and the save follows                                        *)
ImportSection(d, name, sec) ==
    LET list(fields, defaults) ==
            LET r == FromList(sec, fields, defaults) IN
            IF r.err # "" THEN [err |-> r.err, disk |-> d]
            ELSE [err |-> "", disk |-> SaveList(d, SectionFile(name), r.val)]
    IN CASE name = "missions" -> list(MissionFields, MissionDefaults)
         [] name = "skills" -> list(SkillFields, SkillDefaults)
         [] name = "artifacts" -> list(ArtifactFields, ArtifactDefaults)
         [] name = "reflections" ->
              [err |-> "", disk |-> [d EXCEPT ![REFLECTIONS_FILE] = sec]]
         [] name = "challenges" -> list(ChallengeFields, ChallengeDefaults)
         [] name = "profile" ->
              IF sec.shape = "object" /\ Accepts(sec.map, ProfileFields, ProfileDefaults)
              THEN [err |-> "",
                    disk |-> save_profile(d,
                                FromDict(sec.map, ProfileFields, ProfileDefaults))]
              ELSE [err |-> "TypeError", disk |-> d]
         [] name = "badges" -> list(BadgeFields, BadgeDefaults)
         [] name = "quests" -> list(QuestFields, QuestDefaults)

RECURSIVE ImportFrom(_, _, _, _)
ImportFrom(d, data, i, writes) ==
    IF i > Len(ImportOrder) THEN [err |-> "", disk |-> d, writes |-> writes]
    ELSE LET name == ImportOrder[i] IN
         IF name \notin DOMAIN data THEN ImportFrom(d, data, i + 1, writes)
         ELSE LET r == ImportSection(d, name, data[name]) IN
              IF r.err # ""
              THEN [err |-> r.err, disk |-> d, writes |-> writes]
              ELSE ImportFrom(r.disk, data, i + 1, Append(writes, SectionFile(name)))

BuggyImportRestoresSettings(d, path) ==
    LET f == d[path] IN
    IF ~f.exists THEN [err |-> "", disk |-> d, writes |-> <<>>]
    ELSE IF f.shape \in {"garbage", "torn"}
         THEN [err |-> "JSONDecodeError", disk |-> d, writes |-> <<>>]
         ELSE IF f.shape = "object"
              THEN LET r == ImportFrom(d, f.map, 1, <<>>) IN
                   IF r.err = "" /\ "settings" \in DOMAIN f.map
                   THEN [r EXCEPT !.disk = [r.disk EXCEPT ![SETTINGS_FILE] =
                                                              f.map["settings"]]]
                   ELSE r
              ELSE IF f.shape = "list"
                   THEN [err |-> "", disk |-> d, writes |-> <<>>]
                   ELSE [err |-> "TypeError", disk |-> d, writes |-> <<>>]

import_all_data(d, path) ==
    LET f == d[path] IN
    IF ~f.exists THEN [err |-> "", disk |-> d, writes |-> <<>>]
    ELSE IF f.shape \in {"garbage", "torn"}
         THEN [err |-> "JSONDecodeError", disk |-> d, writes |-> <<>>]
         ELSE IF f.shape = "object" THEN ImportFrom(d, f.map, 1, <<>>)
              ELSE IF f.shape = "list"
                   \* "missions" in a list is a membership test
                   THEN [err |-> "", disk |-> d, writes |-> <<>>]
                   ELSE [err |-> "TypeError", disk |-> d, writes |-> <<>>]

(* ExportImportScreen.action_export_data *)
action_export_data ==
    /\ Tick
    /\ LET r == export_all_data(disk) IN
       /\ disk' = r.disk
       /\ lastOp' = Op("export_data", 0, <<>>,
                       IF r.err = "" THEN <<EXPORT_FILE>> ELSE <<>>, r.err,
                       IF r.err = "" THEN "Exported to export.json!" ELSE "")
       /\ xfer' = IF r.err = ""
                  THEN [phase |-> "exported", at_export |-> Collections(disk)]
                  ELSE [xfer EXCEPT !.phase = "live"]
    /\ UNCHANGED <<mem, today, streakHist, reflHist, wr, app, loreHist>>

BuggyImportDataUnchecked ==
    /\ Tick
    /\ LET r == import_all_data(disk, EXPORT_FILE) IN
       /\ disk' = r.disk
       /\ lastOp' = Op("import_data", 0, <<>>, r.writes, r.err,
                       IF r.err = "" THEN "Imported from export.json!" ELSE "")
       /\ xfer' = [xfer EXCEPT !.phase = IF @ = "emptied" THEN "imported" ELSE "live"]
    /\ UNCHANGED <<mem, today, streakHist, reflHist, wr, app, loreHist>>

(* ExportImportScreen.action_import_data *)
action_import_data ==
    /\ Tick
    /\ IF disk[EXPORT_FILE].exists
       THEN LET r == import_all_data(disk, EXPORT_FILE) IN
            /\ disk' = r.disk
            /\ lastOp' = Op("import_data", 0, <<>>, r.writes, r.err,
                            IF r.err = "" THEN "Imported from export.json!" ELSE "")
            /\ xfer' = [xfer EXCEPT !.phase = IF @ = "emptied" THEN "imported"
                                              ELSE "live"]
       ELSE /\ lastOp' = Op("import_data", 0, <<>>, <<>>, "", "export.json not found.")
            /\ xfer' = [xfer EXCEPT !.phase = "live"]
            /\ UNCHANGED disk
    /\ UNCHANGED <<mem, today, streakHist, reflHist, wr, app, loreHist>>

(* the user empties the store: every entity document is removed, and       *)
(* export.json is kept                                                     *)
EmptyStore ==
    /\ \E f \in EntityFiles : disk[f].exists
    /\ disk' = [f \in Files |-> IF f \in EntityFiles THEN Absent ELSE disk[f]]
    /\ xfer' = [xfer EXCEPT !.phase = IF @ = "exported" THEN "emptied" ELSE "live"]
    /\ UNCHANGED <<mem, today, lastOp, ops, streakHist, reflHist, wr, app, loreHist>>

----------------------------------------------------------------------------
(* A loader called by a screen, and what it gave back *)

LoadKinds ==
    {"missions", "skills", "artifacts", "reflections", "challenges", "profile",
     "lore", "oracles", "badges", "quests", "settings"}

FileOf(kind) ==
    CASE kind = "lore" -> LORE_FILE
      [] kind = "oracles" -> ORACLES_FILE
      [] kind = "settings" -> SETTINGS_FILE
      [] OTHER -> SectionFile(kind)

LoadErr(kind, d) ==
    CASE kind = "missions" -> load_missions(d).err
      [] kind = "skills" -> load_skills(d).err
      [] kind = "artifacts" -> load_artifacts(d).err
      [] kind = "reflections" -> load_reflections(d).err
      [] kind = "challenges" -> load_challenges(d).err
      [] kind = "profile" -> load_profile(d).err
      [] kind = "lore" -> load_lore_snippets(d).err
      [] kind = "oracles" -> load_oracles(d).err
      [] kind = "badges" -> load_achievements(d).err
      [] kind = "quests" -> load_quests(d).err
      [] kind = "settings" -> load_settings(d).err

call_load(kind) ==
    /\ Tick
    /\ lastOp' = Op("load", 0, <<kind>>, <<>>, LoadErr(kind, disk),
                    IF LoadErr(kind, disk) = "" THEN "returned" ELSE "raised")
    /\ UNCHANGED <<disk, mem, today, streakHist, reflHist, xfer, wr, app, loreHist>>

----------------------------------------------------------------------------
(* A save as the file system sees it: open(FILE, "w") truncates the file,  *)
(* json.dump writes the text piece by piece, and leaving the with block    *)
(* closes the file.  Until then the file holds a prefix of the new text.   *)

Chunks(doc) == Len(doc.items) + Cardinality(DOMAIN doc.map)

Min(a, b) == IF a <= b THEN a ELSE b

Torn(doc, k) ==
    [exists |-> TRUE, shape |-> "torn",
     items |-> SubSeq(doc.items, 1, Min(k, Len(doc.items))), map |-> EmptyMap]

Running == ~wr.active /\ ~wr.crashed

(* action_toggle_mission up to the open() of save_missions *)
toggle_mission_open(number) ==
    /\ Tick
    /\ Running
    /\ ~wr.then_streak
    /\ mem["missions"].open
    /\ InRange(number - 1, Len(mem["missions"].items))
    /\ LET new == [mem["missions"].items EXCEPT ![number].completed = ~@] IN
       /\ mem' = [mem EXCEPT !["missions"] = Holding(new)]
       /\ wr' = [active |-> TRUE, file |-> MISSIONS_FILE, old |-> disk[MISSIONS_FILE],
                 new |-> ListDoc(new), written |-> 0,
                 then_streak |-> new[number].completed, crashed |-> FALSE]
       /\ disk' = [disk EXCEPT ![MISSIONS_FILE] = Torn(ListDoc(new), 0)]
       /\ lastOp' = Op("toggle_mission", number, <<>>, <<>>, "", "")
    /\ UNCHANGED <<today, streakHist, reflHist, xfer, app, loreHist>>

(* update_mission_streak up to the open() of save_settings *)
update_mission_streak_open ==
    /\ Running
    /\ wr.then_streak
    /\ LET new == update_mission_streak(disk, today).disk[SETTINGS_FILE] IN
       /\ wr' = [active |-> TRUE, file |-> SETTINGS_FILE, old |-> disk[SETTINGS_FILE],
                 new |-> new, written |-> 0, then_streak |-> FALSE,
                 crashed |-> FALSE]
       /\ disk' = [disk EXCEPT ![SETTINGS_FILE] = Torn(new, 0)]
    /\ UNCHANGED <<mem, today, lastOp, ops, streakHist, reflHist, xfer, app, loreHist>>

(* json.dump: one more piece of the text reaches the file *)
save_write ==
    /\ wr.active /\ ~wr.crashed
    /\ wr.written < Chunks(wr.new)
    /\ wr' = [wr EXCEPT !.written = @ + 1]
    /\ disk' = [disk EXCEPT ![wr.file] = Torn(wr.new, wr.written + 1)]
    /\ UNCHANGED <<mem, today, lastOp, ops, streakHist, reflHist, xfer, app, loreHist>>

(* the with block ends: the whole text is in the file *)
save_close ==
    /\ wr.active /\ ~wr.crashed
    /\ wr.written = Chunks(wr.new)
    /\ wr' = [wr EXCEPT !.active = FALSE]
    /\ disk' = [disk EXCEPT ![wr.file] = wr.new]
    /\ UNCHANGED <<mem, today, lastOp, ops, streakHist, reflHist, xfer, app, loreHist>>

(* the process is killed, or the machine loses power *)
Crash ==
    /\ ~wr.crashed
    /\ wr' = [wr EXCEPT !.crashed = TRUE]
    /\ UNCHANGED <<disk, mem, today, lastOp, ops, streakHist, reflHist, xfer, app, loreHist>>

----------------------------------------------------------------------------
(* The App object and TempleGateScreen (main.py, screens.py, themes.py) *)

THEMES == <<"default", "stardust", "nebula", "aurora">>

IndexOf(seq, x) == CHOOSE i \in 1..Len(seq) : seq[i] = x

Range(seq) == {seq[i] : i \in 1..Len(seq)}

(* CosmicTempleApp.__init__: current_theme_name from settings.json *)
AppAt(d) == [theme |-> Get(load_settings(d).val, "theme", "default"), gate |-> FALSE]

(* TempleGateScreen.on_mount, as a function of the disk: pool holds the    *)
(* snippets one of which is shown, and is empty when none is shown         *)
BuggyOnMountKeepsDate(d, T) ==
    LET r == load_settings(d)
        lore == load_lore_snippets(d)
    IN IF r.err # "" THEN [err |-> r.err, disk |-> d, pool |-> <<>>]
       ELSE IF lore.err # "" THEN [err |-> lore.err, disk |-> d, pool |-> <<>>]
       ELSE [err |-> "", disk |-> save_settings(d, r.val), pool |-> lore.val]

on_mount(d, T) ==
    LET r == load_settings(d) IN
    IF r.err # "" THEN [err |-> r.err, disk |-> d, pool |-> <<>>]
    ELSE IF r.shape # "object" THEN [err |-> "AttributeError", disk |-> d, pool |-> <<>>]
    ELSE LET settings == r.val
             last_date == Get(settings, "last_cosmic_event_date", None)
         IN IF last_date # Iso(T)
            THEN LET lore == load_lore_snippets(d) IN
                 IF lore.err # "" THEN [err |-> lore.err, disk |-> d, pool |-> <<>>]
                 ELSE [err |-> "",
                       disk |-> save_settings(d,
                                   Put(settings, "last_cosmic_event_date", Iso(T))),
                       pool |-> lore.val]
            ELSE [err |-> "", disk |-> d, pool |-> <<>>]

(* the gate is mounted on disk d by handler name, which wrote the files    *)
(* before: random.choice picks the snippet that is shown                   *)
Mount(d, name, before) ==
    LET m == on_mount(d, today)
        writes == IF m.disk # d THEN Append(before, SETTINGS_FILE) ELSE before
    IN /\ disk' = m.disk
       /\ IF m.err = "" /\ m.pool # <<>>
          THEN \E i \in 1..Len(m.pool) :
                  /\ loreHist' = Append(loreHist, [day |-> today, snippet |-> m.pool[i]])
                  /\ lastOp' = Op(name, 0, <<m.pool[i]>>, writes, "", "Daily Lore")
          ELSE /\ lastOp' = Op(name, 0, <<>>, writes, m.err, "")
               /\ UNCHANGED loreHist

(* CosmicTempleApp.action_goto_temple_gate: a TempleGateScreen is pushed   *)
(* and mounted                                                             *)
action_goto_temple_gate ==
    /\ Tick
    /\ app' = [app EXCEPT !.gate = TRUE]
    /\ Mount(disk, "goto_temple_gate", <<>>)
    /\ UNCHANGED <<mem, today, streakHist, reflHist, xfer, wr>>

BuggySetThemeFreshDict(d, theme_name) ==
    [err |-> "", disk |-> save_settings(d, Put(EmptyMap, "theme", theme_name))]

(* CosmicTempleApp.set_theme, as a function of the disk *)
set_theme(d, theme_name) ==
    LET r == load_settings(d) IN
    IF r.err # "" THEN [err |-> r.err, disk |-> d]
    ELSE IF r.shape # "object" THEN [err |-> "TypeError", disk |-> d]
    ELSE [err |-> "", disk |-> save_settings(d, Put(r.val, "theme", theme_name))]

(* TempleGateScreen.action_cycle_theme: the next theme is set and saved,   *)
(* and on_mount runs again                                                 *)
action_cycle_theme ==
    /\ Tick
    /\ app.gate
    /\ IF app.theme \notin Range(THEMES)
       THEN /\ lastOp' = Op("cycle_theme", 0, <<>>, <<>>, "ValueError", "")
            /\ UNCHANGED <<disk, app, loreHist>>
       ELSE LET next_index == (IndexOf(THEMES, app.theme) % Len(THEMES)) + 1
                next_theme_name == THEMES[next_index]
                st == set_theme(disk, next_theme_name)
            IN /\ app' = [app EXCEPT !.theme = next_theme_name]
               /\ IF st.err # ""
                  THEN /\ lastOp' = Op("cycle_theme", 0, <<>>, <<>>, st.err, "")
                       /\ UNCHANGED <<disk, loreHist>>
                  ELSE Mount(st.disk, "cycle_theme", <<SETTINGS_FILE>>)
    /\ UNCHANGED <<mem, today, streakHist, reflHist, xfer, wr>>

(* TempleGateScreen.action_pop_screen *)
gate_pop_screen ==
    /\ Tick
    /\ app.gate
    /\ app' = [app EXCEPT !.gate = FALSE]
    /\ lastOp' = Op("pop_screen", 0, <<>>, <<>>, "", "")
    /\ UNCHANGED <<disk, mem, today, streakHist, reflHist, xfer, wr, loreHist>>

----------------------------------------------------------------------------
(* ProfileScreen.  The screen holds one Profile in rec; a name is a        *)
(* sequence of pieces, as typed in the input widget.                       *)

titles == <<"Stargazer", "Nova Runner", "Comet Shaman", "Celestial Alchemist">>

avatar_colors == <<"red", "green", "blue", "yellow", "magenta", "cyan", "white">>

HoldingProfile(profile) == [open |-> TRUE, items |-> <<>>, rec |-> profile]

default_profile ==
    [name |-> <<"Stargazer">>, title |-> "Comet Shaman", avatar_color |-> "white"]

(* ProfileScreen.__init__ *)
ProfileScreen ==
    /\ Tick
    /\ ~mem["profile"].open
    /\ LET r == load_profile(disk) IN
       IF r.err # ""
       THEN /\ lastOp' = Op("ProfileScreen", 0, <<>>, <<>>, r.err, "")
            /\ UNCHANGED <<disk, mem>>
       ELSE IF r.none
            THEN /\ mem' = [mem EXCEPT !["profile"] = HoldingProfile(default_profile)]
                 /\ disk' = save_profile(disk, default_profile)
                 /\ lastOp' = Op("ProfileScreen", 0, <<>>, <<PROFILE_FILE>>, "", "")
            ELSE /\ mem' = [mem EXCEPT !["profile"] = HoldingProfile(r.val)]
                 /\ lastOp' = Op("ProfileScreen", 0, <<>>, <<>>, "", "")
                 /\ UNCHANGED disk
    /\ UNCHANGED <<today, streakHist, reflHist, xfer, wr, app, loreHist>>

BuggyCycleNextNoWrap(seq, x) ==
    LET idx == IF x \in Range(seq) THEN IndexOf(seq, x) - 1 ELSE 0
    IN seq[(IF idx + 1 < Len(seq) THEN idx + 1 ELSE idx) + 1]

(* the element after x in the cycle seq; the one after the first when x    *)
(* is not in seq                                                           *)
CycleNext(seq, x) ==
    LET idx == IF x \in Range(seq) THEN IndexOf(seq, x) - 1 ELSE 0
    IN seq[((idx + 1) % Len(seq)) + 1]

action_next_title ==
    /\ Tick
    /\ mem["profile"].open
    /\ mem' = [mem EXCEPT !["profile"].rec.title = CycleNext(titles, @)]
    /\ lastOp' = Op("next_title", 0, <<>>, <<>>, "", "")
    /\ UNCHANGED <<disk, today, streakHist, reflHist, xfer, wr, app, loreHist>>

action_next_avatar ==
    /\ Tick
    /\ mem["profile"].open
    /\ mem' = [mem EXCEPT !["profile"].rec.avatar_color = CycleNext(avatar_colors, @)]
    /\ lastOp' = Op("next_avatar", 0, <<>>, <<>>, "", "")
    /\ UNCHANGED <<disk, today, streakHist, reflHist, xfer, wr, app, loreHist>>

(* action_save_profile, text being the value of the name input *)
action_save_profile(text) ==
    /\ Tick
    /\ mem["profile"].open
    /\ LET name == Strip(text) IN
       IF name # <<>>
       THEN LET new == [mem["profile"].rec EXCEPT !.name = name] IN
            /\ mem' = [mem EXCEPT !["profile"] = HoldingProfile(new)]
            /\ disk' = save_profile(disk, new)
            /\ lastOp' = Op("save_profile", 0, text, <<PROFILE_FILE>>, "", "Saved! Hello,")
       ELSE /\ lastOp' = Op("save_profile", 0, text, <<>>, "",
                            "Please enter a valid name.")
            /\ UNCHANGED <<disk, mem>>
    /\ UNCHANGED <<today, streakHist, reflHist, xfer, wr, app, loreHist>>

----------------------------------------------------------------------------
(* action_oracle_tip of MissionsScreen and of ChallengesScreen: the        *)
(* category is the name of the screen                                      *)

OracleNone(category) ==
    IF category = "missions" THEN "No oracles available for Missions!"
    ELSE "No oracles for Challenges!"

action_oracle_tip(category) ==
    /\ Tick
    /\ mem[category].open
    /\ LET r == load_oracles(disk)
           none == Op("oracle_tip", 0, <<category>>, <<>>, "", OracleNone(category))
           raised(e) == Op("oracle_tip", 0, <<category>>, <<>>, e, "")
       IN IF r.err # "" THEN lastOp' = raised(r.err)
          ELSE CASE r.shape = "object" ->
                      IF category \in DOMAIN r.val
                      THEN LET tips == r.val[category] IN
                           \* random.choice of an empty sequence raises
                           IF tips = <<>> THEN lastOp' = raised("IndexError")
                           ELSE \E i \in 1..Len(tips) :
                                   lastOp' = Op("oracle_tip", 0, <<category, tips[i]>>,
                                                <<>>, "", "Oracle says:")
                      ELSE lastOp' = none
                 [] r.shape = "list" ->
                      IF category \in Range(r.items)
                      THEN lastOp' = raised("TypeError")
                      ELSE lastOp' = none
                 [] OTHER ->
                      \* a falsy scalar gives no tip, another one raises
                      \E l \in {none, raised("TypeError")} : lastOp' = l
    /\ UNCHANGED <<disk, mem, today, streakHist, reflHist, xfer, wr, app, loreHist>>

----------------------------------------------------------------------------
(* save(load()) for one entity kind *)

SaveLoad(kind, d) ==
    LET list(r) == IF r.err # "" THEN [err |-> r.err, disk |-> d]
                   ELSE [err |-> "", disk |-> SaveList(d, SectionFile(kind), r.val)]
    IN CASE kind = "missions" -> list(load_missions(d))
         [] kind = "skills" -> list(load_skills(d))
         [] kind = "artifacts" -> list(load_artifacts(d))
         [] kind = "challenges" -> list(load_challenges(d))
         [] kind = "badges" -> list(load_achievements(d))
         [] kind = "quests" -> list(load_quests(d))
         [] kind = "reflections" ->
              LET r == load_reflections(d) IN
              IF r.err # "" THEN [err |-> r.err, disk |-> d]
              ELSE [err |-> "",
                    disk |-> [d EXCEPT ![REFLECTIONS_FILE] =
                                 [exists |-> TRUE, shape |-> r.shape,
                                  items |-> r.items, map |-> r.val]]]
         [] kind = "profile" ->
              LET r == load_profile(d) IN
              IF r.err # "" THEN [err |-> r.err, disk |-> d]
              ELSE IF r.none THEN [err |-> "AttributeError", disk |-> d]
              ELSE [err |-> "", disk |-> save_profile(d, r.val)]

save_load(kind) ==
    /\ Tick
    /\ LET r == SaveLoad(kind, disk) IN
       /\ disk' = r.disk
       /\ lastOp' = Op("save_load", 0, <<kind>>,
                       IF r.err = "" THEN <<SectionFile(kind)>> ELSE <<>>, r.err, "")
    /\ UNCHANGED <<mem, today, streakHist, reflHist, xfer, wr, app, loreHist>>

----------------------------------------------------------------------------
(* Both streak updates run on one date, the mission one first *)

call_streak_updates ==
    /\ Tick
    /\ LET m == update_mission_streak(disk, today)
           r == update_reflection_streak(m.disk, today)
       IN /\ disk' = r.disk
          /\ lastOp' = Op("streak_updates", 0, <<>>, <<SETTINGS_FILE, SETTINGS_FILE>>,
                          IF m.err # "" THEN m.err ELSE r.err, "")
    /\ UNCHANGED <<mem, today, streakHist, reflHist, xfer, wr, app, loreHist>>

(* the reflect_streak and last_reflect_day members of settings.json *)
ReflectKeys(d) ==
    LET m == d[SETTINGS_FILE].map IN
    [last |-> Get(m, "last_reflect_day", None), streak |-> Get(m, "reflect_streak", 0)]

----------------------------------------------------------------------------
(* Initial states *)

FreshDisk == [f \in Files |-> Absent]

StreakHistAt(d) ==
    [updates |-> 0, first |-> MissionKeys(d), start |-> MissionKeys(d),
     completed |-> FALSE, days |-> {},
     from_empty |-> (DOMAIN d[SETTINGS_FILE].map = {})]

NoXfer == [phase |-> "live", at_export |-> Collections(FreshDisk)]

NoWrite == [active |-> FALSE, file |-> "", old |-> Absent, new |-> Absent,
            written |-> 0, then_streak |-> FALSE, crashed |-> FALSE]

InitWith(d) ==
    /\ disk = d
    /\ mem = [s \in Screens |-> Closed]
    /\ today = 1
    /\ lastOp = NoOp
    /\ ops = 0
    /\ streakHist = StreakHistAt(d)
    /\ reflHist = [init |-> d[REFLECTIONS_FILE].map, log |-> <<>>]
    /\ xfer = NoXfer
    /\ wr = NoWrite
    /\ app = AppAt(d)
    /\ loreHist = <<>>

----------------------------------------------------------------------------
(* The skill tree on its own: every skills.json of one or two skills whose *)
(* level and progress are drawn from StartLevels and StartProgress (a      *)
(* document written by hand or imported is not validated, so progress may  *)
(* start anywhere), or no document at all.                                 *)

StartLevels == {1, 2}
StartProgress == {0 - 25, 0, 50, 74, 75, 90, 99, 120}

StartSkill == [name : {"Coding"}, level : StartLevels, progress : StartProgress]

StartSkillDocs ==
    {Absent} \cup {ListDoc(<<s>>) : s \in StartSkill}
             \cup {ListDoc(<<s, default_skills[1]>>) : s \in StartSkill}

SkillKeys == 0..4

InitSkill == \E d \in StartSkillDocs : InitWith([FreshDisk EXCEPT ![SKILLS_FILE] = d])

NextSkill ==
    \/ SkillTreesScreen
    \/ \E n \in SkillKeys : action_level_up_skill(n)
    \/ pop_screen("skills")

SpecSkill == InitSkill /\ [][NextSkill]_vars

(* C1: after action_level_up_skill on an in-range index, the advanced      *)
(* skill either kept its level with progress below 100, or gained exactly  *)
(* one level with progress exactly 0; its progress is at most 99, nothing  *)
(* above 100 is carried forward, and skills.json holds the new collection. *)
SkillInvariant ==
    (lastOp.op = "level_up_skill"
        /\ InRange(lastOp.arg - 1, Len(lastOp.preMem["skills"].items)))
    => LET old == lastOp.preMem["skills"].items[lastOp.arg]
           new == mem["skills"].items[lastOp.arg]
       IN /\ \/ new.progress < SkillFull /\ new.level = old.level
             \/ new.progress = 0 /\ new.level = old.level + 1
          /\ new.progress <= SkillFull - 1
          /\ old.progress + SkillIncrement >= SkillFull => new.progress = 0
          /\ disk[SKILLS_FILE] = ListDoc(mem["skills"].items)

(* Coding at level 2 with progress 90 was advanced to level 3, progress 0 *)
SkillLeveledUp ==
    /\ lastOp.op = "level_up_skill"
    /\ lastOp.arg = 1
    /\ lastOp.preMem["skills"].open
    /\ lastOp.preMem["skills"].items[1] = [name |-> "Coding", level |-> 2, progress |-> 90]
    /\ mem["skills"].items[1] = [name |-> "Coding", level |-> 3, progress |-> 0]

----------------------------------------------------------------------------
(* The missions screen and the calendar: settings.json starts absent, or   *)
(* with a mission streak whose last day is older than yesterday, yesterday *)
(* or today.                                                               *)

StartDays == {0 - 1, 0, 1}
StartStreaks == {1, 2}

StartSettingsDocs ==
    {Absent} \cup {ObjDoc([last_mission_day |-> Iso(d), mission_streak |-> n]) :
                      d \in StartDays, n \in StartStreaks}

StartMissionDocs ==
    {Absent, ListDoc([default_missions EXCEPT ![1].completed = TRUE])}

MissionKeysBound == 0..9

InitStreak ==
    \E m \in StartMissionDocs, st \in StartSettingsDocs :
        InitWith([FreshDisk EXCEPT ![MISSIONS_FILE] = m, ![SETTINGS_FILE] = st])

NextStreak ==
    \/ MissionsScreen
    \/ \E n \in MissionKeysBound : action_toggle_mission(n)
    \/ pop_screen("missions")
    \/ NextDay

SpecStreak == InitStreak /\ [][NextStreak]_vars

(* C6: once the mission streak has been updated on a calendar date, every  *)
(* further update on that date leaves mission_streak and last_mission_day  *)
(* as the first update left them.                                          *)
StreakIdempotent ==
    streakHist.updates >= 1 => MissionKeys(disk) = streakHist.first

(* the streak was updated twice on one date, the second time changing nothing *)
StreakUpdatedTwice ==
    /\ streakHist.updates >= 2
    /\ lastOp.msg = "completed!"
    /\ lastOp.day = today
    /\ MissionKeys(lastOp.pre) = MissionKeys(disk)

(* C7: a streak update on date T sets last_mission_day to T; the streak    *)
(* becomes old + 1 when the stored last day is T - 1, and 1 when there is  *)
(* no stored last day or it is neither T nor T - 1.  From empty settings,  *)
(* completions on two consecutive days give 2 and on days two apart give 1.*)
StreakContinuity ==
    (lastOp.op = "toggle_mission" /\ lastOp.msg = "completed!" /\ lastOp.err = "")
    => LET pre == MissionKeys(lastOp.pre)
           post == MissionKeys(disk)
           T == lastOp.day
       IN /\ post.last = Iso(T)
          /\ pre.last = Iso(T - 1) => post.streak = pre.streak + 1
          /\ (pre.last = None \/ pre.last \notin {Iso(T), Iso(T - 1)})
                => post.streak = 1
          /\ (streakHist.from_empty /\ streakHist.days = {T - 1, T})
                => post.streak = 2
          /\ (streakHist.from_empty /\ streakHist.days = {T - 2, T})
                => post.streak = 1

(* from empty settings a mission was completed on day 1 and on day 2 *)
StreakOfTwoDays ==
    /\ lastOp.op = "toggle_mission"
    /\ lastOp.msg = "completed!"
    /\ streakHist.from_empty
    /\ streakHist.days = {1, 2}
    /\ MissionKeys(disk) = [last |-> Iso(2), streak |-> 2]

(* C8: on a date that started with last_mission_day = yesterday and        *)
(* mission_streak = s, after any toggles the streak is s + 1 if some       *)
(* toggle of the date completed a mission, and s otherwise.                *)
SameDayStreak ==
    streakHist.start.last = Iso(today - 1)
    => MissionKeys(disk).streak =
          IF streakHist.completed
          THEN streakHist.start.streak + 1
          ELSE streakHist.start.streak

(* missions 1 and 2 were both completed on a date that started with        *)
(* last_mission_day = yesterday                                            *)
TwoCompletedSameDay ==
    /\ streakHist.start.last = Iso(today - 1)
    /\ streakHist.updates = 2
    /\ mem["missions"].open
    /\ mem["missions"].items[1].completed
    /\ mem["missions"].items[2].completed
    /\ MissionKeys(disk).streak = streakHist.start.streak + 1

----------------------------------------------------------------------------
(* The reflection screen and the calendar: reflections.json starts absent, *)
(* or with an entry of yesterday or of today.                              *)

StartReflectionDocs ==
    {Absent, ObjDoc(Put(EmptyMap, Iso(0), <<"o">>)), ObjDoc(Put(EmptyMap, Iso(1), <<"o">>))}

StartReflectSettingsDocs ==
    {Absent, ObjDoc([last_reflect_day |-> Iso(0), reflect_streak |-> 1])}

ReflectionInputs ==
    {<<>>, <<" ", "\t">>, <<"a">>, <<"b">>, <<" ", "a", " ">>}

InitReflect ==
    \E r \in StartReflectionDocs, st \in StartReflectSettingsDocs :
        InitWith([FreshDisk EXCEPT ![REFLECTIONS_FILE] = r, ![SETTINGS_FILE] = st])

NextReflect ==
    \/ \E text \in ReflectionInputs : action_record_reflection(text)
    \/ NextDay

SpecReflect == InitReflect /\ [][NextReflect]_vars

(* the dates of the accepted records, and the last accepted record of a date *)
LoggedDates == {reflHist.log[i].date : i \in 1..Len(reflHist.log)}

LastLogged(date) ==
    LET at == {i \in 1..Len(reflHist.log) : reflHist.log[i].date = date}
        last == CHOOSE i \in at : \A j \in at : j <= i
    IN reflHist.log[last].text

Blank(text) == \A i \in 1..Len(text) : text[i] \in Whitespace

(* C9: reflections.json holds one entry per date that had one at the start *)
(* or for which a record was accepted; the entry of a date is the trimmed  *)
(* content of the last record accepted for it, and the entry of a date     *)
(* without accepted record is what it was at the start.                    *)
ReflectionOverwrite ==
    LET m == disk[REFLECTIONS_FILE].map IN
    /\ DOMAIN m = DOMAIN reflHist.init \cup LoggedDates
    /\ \A date \in DOMAIN m :
          m[date] = IF date \in LoggedDates
                    THEN Strip(LastLogged(date))
                    ELSE reflHist.init[date]

(* two different contents were recorded for one date, and an entry of      *)
(* another date is still there                                             *)
ReflectionOverwritten ==
    /\ Len(reflHist.log) >= 2
    /\ reflHist.log[1].date = reflHist.log[2].date
    /\ Strip(reflHist.log[1].text) # Strip(reflHist.log[2].text)
    /\ disk[REFLECTIONS_FILE].map[reflHist.log[2].date] = Strip(reflHist.log[2].text)
    /\ DOMAIN disk[REFLECTIONS_FILE].map # {reflHist.log[2].date}

(* C10: action_record_reflection with content that is blank reports        *)
(* "No content to save.", saves nothing and leaves every document, the     *)
(* reflections and the reflection streak and last day in settings.json     *)
(* included, as it was.                                                    *)
BlankReflectionRejected ==
    (lastOp.op = "record_reflection" /\ Blank(lastOp.text))
    => /\ lastOp.msg = "No content to save."
       /\ lastOp.err = ""
       /\ lastOp.writes = <<>>
       /\ disk = lastOp.pre

(* a blank reflection was submitted after one had been saved *)
BlankReflectionSubmitted ==
    /\ lastOp.op = "record_reflection"
    /\ lastOp.text = <<" ", "\t">>
    /\ Len(reflHist.log) >= 1
    /\ "reflect_streak" \in DOMAIN disk[SETTINGS_FILE].map

----------------------------------------------------------------------------
(* The collection screens together, from a working directory without       *)
(* documents.  The keys are those of the BINDINGS of each screen, and 0,    *)
(* which makes the index negative.                                         *)

ArtifactKeys == 0..4
ChallengeKeys == 0..3
QuestKeys == 0..2

CollectionScreens ==
    {"missions", "skills", "artifacts", "crafts", "challenges", "quests"}

Init == InitWith(FreshDisk)

Next ==
    \/ MissionsScreen
    \/ SkillTreesScreen
    \/ ArtifactsScreen
    \/ CosmicCraftsScreen
    \/ ChallengesScreen
    \/ QuestsScreen
    \/ \E s \in CollectionScreens : pop_screen(s)
    \/ \E n \in MissionKeysBound : action_toggle_mission(n)
    \/ \E n \in SkillKeys : action_level_up_skill(n)
    \/ \E n \in ArtifactKeys : action_toggle_artifact(n)
    \/ \E n \in ArtifactKeys : action_rename_artifact(n)
    \/ \E n \in ChallengeKeys : action_toggle_challenge(n)
    \/ action_new_challenge
    \/ \E n \in QuestKeys : action_start_quest(n)

Spec == Init /\ [][Next]_vars

(* the screen whose collection a handler indexes *)
ScreenOf(op) ==
    CASE op = "toggle_mission" -> "missions"
      [] op = "level_up_skill" -> "skills"
      [] op = "toggle_artifact" -> "artifacts"
      [] op = "rename_artifact" -> "crafts"
      [] op = "toggle_challenge" -> "challenges"
      [] op = "start_quest" -> "quests"

IndexedOps ==
    {"toggle_mission", "level_up_skill", "toggle_artifact", "rename_artifact",
     "toggle_challenge", "start_quest"}

OutOfRangeCall ==
    /\ lastOp.op \in IndexedOps
    /\ ~InRange(lastOp.arg - 1, Len(lastOp.preMem[ScreenOf(lastOp.op)].items))

(* C5: a toggle, advance, rename or quest handler called with an index     *)
(* outside [0, len) changes no collection held in memory, saves no         *)
(* document (settings.json included) and raises nothing.                   *)
BoundsSafety ==
    OutOfRangeCall
    => /\ mem = lastOp.preMem
       /\ disk = lastOp.pre
       /\ lastOp.writes = <<>>
       /\ lastOp.err = ""

(* key 4 was pressed on the artifacts screen, which holds three artifacts *)
ArtifactKeyOutOfRange ==
    /\ lastOp.op = "toggle_artifact"
    /\ lastOp.arg = 4
    /\ Len(mem["artifacts"].items) = 3

----------------------------------------------------------------------------
(* Export, emptied store, import: every entity document starts absent or   *)
(* with some content.                                                      *)

StartProfileDocs ==
    {Absent,
     ObjDoc([name |-> <<"Nova">>, title |-> "Comet Shaman", avatar_color |-> "white"])}

StartBadgeDocs ==
    {Absent, ListDoc(<<[title |-> "First Light", description |-> "One mission"]>>)}

StartQuestDocs == {Absent, ListDoc(<<[sample_quest EXCEPT !.completed = TRUE]>>)}

StartChallengeDocs ==
    {Absent,
     ListDoc(<<[title |-> "Complete 2 Missions", deadline |-> Iso(3), progress |-> 1,
                goal |-> 2]>>)}

StartArtifactDocs == {Absent, ListDoc(default_artifacts)}

InitRoundTrip ==
    \E m \in StartMissionDocs, sk \in {Absent, ListDoc(default_skills)},
       a \in StartArtifactDocs, r \in StartReflectionDocs,
       c \in StartChallengeDocs, p \in StartProfileDocs, b \in StartBadgeDocs,
       q \in StartQuestDocs :
        InitWith([FreshDisk EXCEPT ![MISSIONS_FILE] = m, ![SKILLS_FILE] = sk,
                                   ![ARTIFACTS_FILE] = a, ![REFLECTIONS_FILE] = r,
                                   ![CHALLENGES_FILE] = c, ![PROFILE_FILE] = p,
                                   ![BADGES_FILE] = b, ![QUESTS_FILE] = q])

NextRoundTrip ==
    \/ action_export_data
    \/ EmptyStore
    \/ action_import_data

SpecRoundTrip == InitRoundTrip /\ [][NextRoundTrip]_vars

(* C2: after export, emptying the store and import, the import has         *)
(* completed without error and every loader returns what it returned when  *)
(* the export was made.                                                    *)
ExportImportRoundTrip ==
    xfer.phase = "imported"
    => /\ lastOp.err = ""
       /\ Collections(disk) = xfer.at_export

----------------------------------------------------------------------------
(* A crash during the saves of action_toggle_mission *)

InitCrash ==
    \E m \in StartMissionDocs \ {Absent}, st \in StartSettingsDocs :
        InitWith([FreshDisk EXCEPT ![MISSIONS_FILE] = m, ![SETTINGS_FILE] = st])

NextCrash ==
    \/ Running /\ MissionsScreen
    \/ \E n \in MissionKeysBound : toggle_mission_open(n)
    \/ update_mission_streak_open
    \/ save_write
    \/ save_close
    \/ Crash

SpecCrash == InitCrash /\ [][NextCrash]_vars

(* C3: after a crash, the file that was being saved holds its complete old *)
(* content or its complete new content.                                    *)
CrashLeavesOldOrNew ==
    (wr.crashed /\ wr.file # "") => disk[wr.file] \in {wr.old, wr.new}

----------------------------------------------------------------------------
(* The loaders on documents of any shape *)

LoadMissionDocs ==
    {Absent, ListDoc(default_missions), ListDoc(<<[title |-> "t"]>>),
     ObjDoc(EmptyMap), ObjDoc([a |-> "x"]), ScalarDoc, GarbageDoc}

LoadProfileDocs ==
    StartProfileDocs \cup {ObjDoc(EmptyMap), ListDoc(<<>>), GarbageDoc}

LoadLoreDocs ==
    {Absent, ListDoc(<<"The stars remember.">>), ObjDoc([a |-> "x"]), ScalarDoc,
     GarbageDoc}

LoadReflectionDocs == StartReflectionDocs \cup {ListDoc(<<>>), ScalarDoc}

InitLoad ==
    \E m \in LoadMissionDocs, p \in LoadProfileDocs, l \in LoadLoreDocs,
       r \in LoadReflectionDocs :
        InitWith([FreshDisk EXCEPT ![MISSIONS_FILE] = m, ![PROFILE_FILE] = p,
                                   ![LORE_FILE] = l, ![REFLECTIONS_FILE] = r])

NextLoad == \E kind \in LoadKinds : call_load(kind)

SpecLoad == InitLoad /\ [][NextLoad]_vars

(* the shape section 6 of the specification gives each document *)
ListKindFields(kind) ==
    CASE kind = "missions" -> MissionFields
      [] kind = "skills" -> SkillFields
      [] kind = "artifacts" -> ArtifactFields
      [] kind = "challenges" -> ChallengeFields
      [] kind = "badges" -> BadgeFields
      [] kind = "quests" -> QuestFields

WellShaped(kind, f) ==
    CASE kind \in {"missions", "skills", "artifacts", "challenges", "badges", "quests"} ->
            /\ f.shape = "list"
            /\ \A i \in 1..Len(f.items) : DOMAIN f.items[i] = ListKindFields(kind)
      [] kind = "profile" -> f.shape = "object" /\ DOMAIN f.map = ProfileFields
      [] kind = "lore" -> f.shape = "list"
      [] OTHER -> f.shape = "object"

(* C4: a loader run on a document that exists and has not the expected     *)
(* shape raises.                                                           *)
LoadSurfacesCorruption ==
    \A kind \in LoadKinds :
        (/\ lastOp.op = "load"
         /\ lastOp.text = <<kind>>
         /\ lastOp.pre[FileOf(kind)].exists
         /\ ~WellShaped(kind, lastOp.pre[FileOf(kind)]))
        => lastOp.err # ""

----------------------------------------------------------------------------
(* Import of a snapshot into a live store: export.json starts absent, or   *)
(* with some of the sections, and is also written by the export.           *)

StartSnapshots ==
    {Absent,
     ObjDoc([missions |-> ListDoc(<<[title |-> "Imported", description |-> "d"]>>)]),
     ObjDoc([profile |-> ObjDoc([name |-> <<"Vega">>]),
             quests |-> ListDoc(<<sample_quest>>)]),
     ObjDoc([badges |-> ListDoc(<<>>), artifacts |-> ListDoc(default_artifacts),
             settings |-> ObjDoc([theme |-> "aurora", reflect_streak |-> 7])]),
     ObjDoc([missions |-> ListDoc(<<[title |-> "Imported", description |-> "d"]>>),
             profile |-> ObjDoc([title |-> "Nova Runner"]),
             settings |-> ObjDoc([theme |-> "aurora", mission_streak |-> 9])])}

StartImportSettingsDocs ==
    {Absent,
     ObjDoc([theme |-> "nebula", mission_streak |-> 2, last_mission_day |-> Iso(0),
             last_cosmic_event_date |-> Iso(1)])}

InitImport ==
    \E m \in StartMissionDocs, p \in StartProfileDocs, b \in StartBadgeDocs,
       q \in StartQuestDocs, x \in StartSnapshots, st \in StartImportSettingsDocs :
        InitWith([FreshDisk EXCEPT ![MISSIONS_FILE] = m, ![PROFILE_FILE] = p,
                                   ![BADGES_FILE] = b, ![QUESTS_FILE] = q,
                                   ![EXPORT_FILE] = x, ![SETTINGS_FILE] = st])

NextImport ==
    \/ action_export_data
    \/ action_import_data

SpecImport == InitImport /\ [][NextImport]_vars

(* the snapshot an import read *)
ImportedSnapshot == lastOp.pre[EXPORT_FILE]

ImportRan ==
    /\ lastOp.op = "import_data"
    /\ ImportedSnapshot.exists
    /\ ImportedSnapshot.shape = "object"

(* C11: after an import, the document of every section present in the     *)
(* snapshot holds what that section gives when saved, and the document of  *)
(* every section absent from the snapshot is what it was before.           *)
ImportFrame ==
    ImportRan
    => \A i \in 1..Len(ImportOrder) :
          LET name == ImportOrder[i]
              file == SectionFile(name)
          IN IF name \in DOMAIN ImportedSnapshot.map
             THEN LET r == ImportSection(lastOp.pre, name, ImportedSnapshot.map[name])
                  IN r.err = "" => disk[file] = r.disk[file]
             ELSE disk[file] = lastOp.pre[file]

(* C12: an import when export.json does not exist changes no document,     *)
(* raises nothing and reports "export.json not found.", which is not the   *)
(* report of an import that was made.                                      *)
ImportSourceMissing ==
    (lastOp.op = "import_data" /\ ~ImportedSnapshot.exists)
    => /\ disk = lastOp.pre
       /\ lastOp.writes = <<>>
       /\ lastOp.err = ""
       /\ lastOp.msg = "export.json not found."
       /\ lastOp.msg # "Imported from export.json!"

(* an import was asked for in a store that has documents and no export.json *)
ImportAskedWithoutSnapshot ==
    /\ lastOp.op = "import_data"
    /\ ~ImportedSnapshot.exists
    /\ disk[MISSIONS_FILE].exists
    /\ disk[PROFILE_FILE].exists

----------------------------------------------------------------------------
(* The profile screen on its own: profile.json starts absent, complete, or *)
(* with a name only.  The name input holds the name of the profile until   *)
(* something is typed into it.                                             *)

ProfileStartDocs == StartProfileDocs \cup {ObjDoc([name |-> <<"Nova">>])}

ProfileInputs == {<<>>, <<" ">>, <<"Z">>, <<" ", "Z", " ">>}

InitProfile == \E p \in ProfileStartDocs : InitWith([FreshDisk EXCEPT ![PROFILE_FILE] = p])

NextProfile ==
    \/ ProfileScreen
    \/ action_next_title
    \/ action_next_avatar
    \/ \E text \in ProfileInputs \cup
                   (IF mem["profile"].open THEN {mem["profile"].rec.name} ELSE {}) :
          action_save_profile(text)
    \/ pop_screen("profile")

SpecProfile == InitProfile /\ [][NextProfile]_vars

(* the entity kind a screen holds *)
KindOf(s) == IF s = "crafts" THEN "artifacts" ELSE s

(* what a screen holds is what the loader of its kind reads from the disk *)
Persisted(s) ==
    LET r == Collections(disk)[KindOf(s)] IN
    /\ r.err = ""
    /\ IF s = "profile" THEN ~r.none /\ r.val = mem[s].rec
       ELSE r.val = mem[s].items

(* C13: whenever a handler has returned, every screen that holds a         *)
(* collection or the profile holds what its document holds.                *)
MutationsPersisted == \A s \in Screens : mem[s].open => Persisted(s)

----------------------------------------------------------------------------
(* The oracle tips of the missions and challenges screens: oracles.json    *)
(* starts absent, empty, or with tip lists some of which are empty.        *)

StartOracleDocs ==
    {Absent,
     ObjDoc(EmptyMap),
     ObjDoc([missions |-> <<"Rest.", "Begin small.">>]),
     ObjDoc([missions |-> <<>>, challenges |-> <<"Pace yourself.">>]),
     ObjDoc([challenges |-> <<>>])}

OracleScreens == {"missions", "challenges"}

InitOracle == \E o \in StartOracleDocs : InitWith([FreshDisk EXCEPT ![ORACLES_FILE] = o])

NextOracle ==
    \/ MissionsScreen
    \/ ChallengesScreen
    \/ \E s \in OracleScreens : action_oracle_tip(s)
    \/ \E s \in OracleScreens : pop_screen(s)
    \/ \E n \in MissionKeysBound : action_toggle_mission(n)

SpecOracle == InitOracle /\ [][NextOracle]_vars

(* C14: action_oracle_tip raises nothing; when the category has a          *)
(* non-empty tip list in oracles.json it gives one of its tips, and when   *)
(* the category is absent or its list is empty it reports that there are   *)
(* no oracles.                                                             *)
OracleTipOutcome ==
    lastOp.op = "oracle_tip"
    => LET category == lastOp.text[1]
           oracles == lastOp.pre[ORACLES_FILE].map
       IN /\ lastOp.err = ""
          /\ IF category \in DOMAIN oracles /\ oracles[category] # <<>>
             THEN /\ Len(lastOp.text) = 2
                  /\ lastOp.text[2] \in Range(oracles[category])
                  /\ lastOp.msg = "Oracle says:"
             ELSE lastOp.msg = OracleNone(category)

----------------------------------------------------------------------------
(* The temple gate and the calendar: lore.json starts absent, empty or     *)
(* with two snippets; settings.json starts absent, or with the daily lore  *)
(* of yesterday or of today already shown.                                 *)

StartLoreDocs ==
    {Absent, ListDoc(<<>>), ListDoc(<<"The stars remember.", "Dust becomes light.">>)}

StartGateSettingsDocs ==
    {Absent,
     ObjDoc([last_cosmic_event_date |-> Iso(0)]),
     ObjDoc([last_cosmic_event_date |-> Iso(1), theme |-> "nebula"])}

InitLore ==
    \E l \in StartLoreDocs, st \in StartGateSettingsDocs :
        InitWith([FreshDisk EXCEPT ![LORE_FILE] = l, ![SETTINGS_FILE] = st])

NextLore ==
    \/ action_goto_temple_gate
    \/ action_cycle_theme
    \/ gate_pop_screen
    \/ NextDay

SpecLore == InitLore /\ [][NextLore]_vars

MountOps == {"goto_temple_gate", "cycle_theme"}

(* C15: no two snippets were shown on one calendar date; a mount on a date *)
(* that settings.json already names as last_cosmic_event_date shows none;  *)
(* a mount sets last_cosmic_event_date to its date; every snippet shown    *)
(* is one of lore.json, and none is shown when lore.json has none.         *)
DailyLoreOnce ==
    /\ \A i, j \in 1..Len(loreHist) : i # j => loreHist[i].day # loreHist[j].day
    /\ \A i \in 1..Len(loreHist) : loreHist[i].snippet \in Range(disk[LORE_FILE].items)
    /\ disk[LORE_FILE].items = <<>> => loreHist = <<>>
    /\ lastOp.op \in MountOps
       => /\ Get(lastOp.pre[SETTINGS_FILE].map, "last_cosmic_event_date", None)
                = Iso(lastOp.day) => lastOp.text = <<>>
          /\ lastOp.err = ""
          /\ Get(disk[SETTINGS_FILE].map, "last_cosmic_event_date", None)
                = Iso(lastOp.day)

(* a snippet was shown today, and the theme cycle that followed re-ran the *)
(* mount without showing another                                           *)
LoreShownThenSuppressed ==
    /\ Len(loreHist) >= 1
    /\ loreHist[Len(loreHist)].day = today
    /\ lastOp.op = "cycle_theme"
    /\ lastOp.day = today
    /\ lastOp.text = <<>>

----------------------------------------------------------------------------
(* Properties of the collection screens together (Spec) *)

RenameInRange ==
    /\ lastOp.op = "rename_artifact"
    /\ InRange(lastOp.arg - 1, Len(lastOp.preMem["crafts"].items))

(* C16: action_rename_artifact on an in-range index appends "-Enhanced"    *)
(* to the name of the artifact at that index and changes nothing else:     *)
(* the collection keeps its length and order, every artifact keeps its     *)
(* collected flag, every other artifact keeps its name, and artifacts.json *)
(* holds the collection as renamed.                                        *)
RenameFrame ==
    RenameInRange
    => LET old == lastOp.preMem["crafts"].items
           new == mem["crafts"].items
       IN /\ Len(new) = Len(old)
          /\ \A i \in 1..Len(old) :
                /\ new[i].collected = old[i].collected
                /\ new[i].name = IF i = lastOp.arg
                                 THEN Append(old[i].name, "-Enhanced")
                                 ELSE old[i].name
          /\ disk[ARTIFACTS_FILE] = ListDoc(new)
          /\ \A s \in Screens \ {"crafts"} : mem[s] = lastOp.preMem[s]

(* the collected artifact "Meteor Fragment" was renamed *)
CollectedArtifactRenamed ==
    /\ lastOp.op = "rename_artifact"
    /\ lastOp.arg = 2
    /\ Len(mem["crafts"].items) = 3
    /\ mem["crafts"].items[2] =
          [name |-> <<"Meteor Fragment", "-Enhanced">>, collected |-> TRUE]

ScreenInits ==
    {"MissionsScreen", "SkillTreesScreen", "ArtifactsScreen", "CosmicCraftsScreen",
     "ChallengesScreen", "QuestsScreen"}

(* C18: every screen that has loaded a collection holds a non-empty one,   *)
(* and its document exists; a screen that found a non-empty collection     *)
(* wrote nothing when it loaded it.                                        *)
SeededOnAccess ==
    /\ \A s \in CollectionScreens :
          mem[s].open => /\ mem[s].items # <<>>
                         /\ disk[SectionFile(KindOf(s))].exists
    /\ (lastOp.op \in ScreenInits /\ lastOp.writes # <<>>)
          => ~lastOp.pre[lastOp.writes[1]].exists
                \/ lastOp.pre[lastOp.writes[1]].items = <<>>

----------------------------------------------------------------------------
(* save(load()) on well-formed documents, some of whose records leave out  *)
(* fields that have a default in the dataclass                             *)

SaveLoadKinds == Range(ImportOrder)

SaveLoadMissionDocs ==
    StartMissionDocs \cup {ListDoc(<<[title |-> "Stargaze", description |-> "Look up"]>>)}

SaveLoadSkillDocs == {ListDoc(default_skills), ListDoc(<<[name |-> "Coding"]>>)}

InitSaveLoad ==
    \E m \in SaveLoadMissionDocs, sk \in SaveLoadSkillDocs, p \in ProfileStartDocs,
       r \in StartReflectionDocs \ {Absent} :
        InitWith([FreshDisk EXCEPT ![MISSIONS_FILE] = m, ![SKILLS_FILE] = sk,
                                   ![PROFILE_FILE] = p, ![REFLECTIONS_FILE] = r,
                                   ![QUESTS_FILE] = ListDoc(<<sample_quest>>)])

NextSaveLoad == \E kind \in SaveLoadKinds : save_load(kind)

SpecSaveLoad == InitSaveLoad /\ [][NextSaveLoad]_vars

(* C17: save(load()) of a kind whose document exists raises nothing and    *)
(* leaves every document, that of the kind included, with the content it   *)
(* had.                                                                    *)
SaveLoadNoOp ==
    (lastOp.op = "save_load" /\ lastOp.pre[SectionFile(lastOp.text[1])].exists)
    => /\ lastOp.err = ""
       /\ disk = lastOp.pre

----------------------------------------------------------------------------
(* Further properties of the missions screen and the calendar (SpecStreak) *)

ToggleInRange ==
    /\ lastOp.op = "toggle_mission"
    /\ InRange(lastOp.arg - 1, Len(lastOp.preMem["missions"].items))

(* C19: action_toggle_mission on an in-range index saves missions.json     *)
(* first; when it turned a completed mission to pending it writes nothing  *)
(* else and settings.json is what it was; when it turned a pending mission *)
(* to completed the streak update follows the save of the missions.        *)
StreakOnlyOnCompletion ==
    ToggleInRange
    => LET was == lastOp.preMem["missions"].items[lastOp.arg].completed IN
       /\ disk[MISSIONS_FILE] = ListDoc(mem["missions"].items)
       /\ mem["missions"].items[lastOp.arg].completed = ~was
       /\ was => /\ lastOp.writes = <<MISSIONS_FILE>>
                 /\ disk[SETTINGS_FILE] = lastOp.pre[SETTINGS_FILE]
       /\ ~was => /\ lastOp.writes = <<MISSIONS_FILE, SETTINGS_FILE>>
                  /\ MissionKeys(disk).last = Iso(lastOp.day)

(* a mission completed earlier on this date was turned back to pending *)
MissionTurnedPending ==
    /\ lastOp.op = "toggle_mission"
    /\ lastOp.msg = "is pending now."
    /\ lastOp.day = today
    /\ streakHist.updates >= 1
    /\ MissionKeys(disk).last = Iso(today)

Max(S) == CHOOSE x \in S : \A y \in S : y <= x

(* the number of consecutive days of the set days that end at day last *)
RECURSIVE RunLength(_, _)
RunLength(days, last) ==
    IF last \in days THEN 1 + RunLength(days, last - 1) ELSE 0

(* C20: starting without settings, once missions have been completed,      *)
(* last_mission_day is the last date with a completion and mission_streak  *)
(* is the number of consecutive dates with a completion that end there.    *)
StreakIsRunLength ==
    (streakHist.from_empty /\ streakHist.days # {})
    => LET last == Max(streakHist.days) IN
       /\ MissionKeys(disk).last = Iso(last)
       /\ MissionKeys(disk).streak = RunLength(streakHist.days, last)

(* from empty settings a mission was completed on days 1, 2 and 3 *)
StreakOfThreeDays ==
    /\ streakHist.from_empty
    /\ streakHist.days = {1, 2, 3}
    /\ MissionKeys(disk) = [last |-> Iso(3), streak |-> 3]

----------------------------------------------------------------------------
(* The two streak updates side by side: settings.json starts with the same *)
(* last day and the same streak under the mission keys and the reflection  *)
(* keys; the day is absent, the empty string, or a date up to today, and   *)
(* the streak is absent or a number.                                       *)

PairLastDays == {None, "", Iso(0 - 1), Iso(0), Iso(1)}
PairStreaks == {0, 1, 2}

(* settings with the day and the streak under both pairs of keys; None for *)
(* the day and 0 for the streak stand for an absent key                    *)
PairSettings(last, streak) ==
    LET a == IF last = None THEN EmptyMap
             ELSE Put(Put(EmptyMap, "last_mission_day", last), "last_reflect_day", last)
        b == IF streak = 0 THEN a
             ELSE Put(Put(a, "mission_streak", streak), "reflect_streak", streak)
    IN IF DOMAIN b = {} THEN Absent ELSE ObjDoc(b)

InitStreakPair ==
    \E last \in PairLastDays, streak \in PairStreaks :
        InitWith([FreshDisk EXCEPT ![SETTINGS_FILE] = PairSettings(last, streak)])

NextStreakPair ==
    \/ call_streak_updates
    \/ NextDay

SpecStreakPair == InitStreakPair /\ [][NextStreakPair]_vars

(* C21: run on the same stored last day and streak and on the same date,   *)
(* update_mission_streak and update_reflection_streak store the same new   *)
(* streak and the same new last day, each under its own keys.              *)
StreakUpdatesAgree ==
    /\ MissionKeys(disk) = ReflectKeys(disk)
    /\ ("last_mission_day" \in DOMAIN disk[SETTINGS_FILE].map)
          <=> ("last_reflect_day" \in DOMAIN disk[SETTINGS_FILE].map)
    /\ ("mission_streak" \in DOMAIN disk[SETTINGS_FILE].map)
          <=> ("reflect_streak" \in DOMAIN disk[SETTINGS_FILE].map)
    /\ lastOp.op = "streak_updates"
          => /\ lastOp.err = ""
             /\ MissionKeys(disk).last = Iso(lastOp.day)
             /\ MissionKeys(disk).streak =
                   MissionStreak(MissionKeys(lastOp.pre).last,
                                 MissionKeys(lastOp.pre).streak, lastOp.day)

(* both updates ran on settings whose last days were the empty string *)
BlankDateUpdated ==
    /\ lastOp.op = "streak_updates"
    /\ MissionKeys(lastOp.pre) = [last |-> "", streak |-> 2]
    /\ ReflectKeys(lastOp.pre) = [last |-> "", streak |-> 2]
    /\ ReflectKeys(disk) = [last |-> Iso(lastOp.day), streak |-> 1]

----------------------------------------------------------------------------
(* Further properties of the import and the export (SpecImport) *)

(* C22: an import that raised has replaced no document. *)
ImportAllOrNothing ==
    (lastOp.op = "import_data" /\ lastOp.err # "")
    => /\ lastOp.writes = <<>>
       /\ disk = lastOp.pre

(* what the export or the import of lastOp does on the disk it found, had  *)
(* settings.json been unreadable                                           *)
TransferWithoutSettings ==
    LET g == [lastOp.pre EXCEPT ![SETTINGS_FILE] = GarbageDoc] IN
    IF lastOp.op = "export_data"
    THEN export_all_data(g)
    ELSE import_all_data(g, EXPORT_FILE)

(* C28: an export or an import leaves settings.json as it was and does     *)
(* what it would do were settings.json unreadable; an export changes no    *)
(* document but export.json, and the snapshot it writes has the eight      *)
(* entity sections and no other.                                           *)
TransferLeavesSettings ==
    lastOp.op \in {"export_data", "import_data"}
    => /\ disk[SETTINGS_FILE] = lastOp.pre[SETTINGS_FILE]
       /\ SETTINGS_FILE \notin Range(lastOp.writes)
       /\ TransferWithoutSettings.err = lastOp.err
       /\ \A f \in Files \ {SETTINGS_FILE} : TransferWithoutSettings.disk[f] = disk[f]
       /\ lastOp.op = "export_data"
          => /\ \A f \in Files \ {EXPORT_FILE} : disk[f] = lastOp.pre[f]
             /\ lastOp.err = ""
                => DOMAIN disk[EXPORT_FILE].map = Range(ImportOrder)

(* an import of a snapshot that has a settings section went through, and   *)
(* the theme and the streak on disk are those from before                  *)
SettingsSectionIgnored ==
    /\ ImportRan
    /\ "settings" \in DOMAIN ImportedSnapshot.map
    /\ lastOp.err = ""
    /\ lastOp.writes = <<ARTIFACTS_FILE, BADGES_FILE>>
    /\ disk[SETTINGS_FILE].exists
    /\ disk[SETTINGS_FILE].map["theme"] = "nebula"
    /\ MissionKeys(disk) = [last |-> Iso(0), streak |-> 2]

----------------------------------------------------------------------------
(* Challenges and quests over the steps of the collection screens (Spec)   *)

Done(c) == c.progress >= c.goal

(* one step, seen on challenges.json and on the challenges screen *)
ChallengeStep ==
    LET old == disk[CHALLENGES_FILE].items
        new == disk'[CHALLENGES_FILE].items
    IN /\ Len(new) >= Len(old)
       /\ \A i \in 1..Len(old) :
             /\ new[i].title = old[i].title
             /\ new[i].deadline = old[i].deadline
             /\ new[i].goal = old[i].goal
             /\ new[i].progress >= old[i].progress
             /\ Done(old[i]) => Done(new[i])
       /\ (lastOp'.op = "toggle_challenge"
              /\ InRange(lastOp'.arg - 1, Len(mem["challenges"].items)))
          => LET o == mem["challenges"].items
                 n == mem'["challenges"].items
             IN /\ Len(n) = Len(o)
                /\ \A i \in 1..Len(o) :
                      n[i] = IF i = lastOp'.arg
                             THEN [o[i] EXCEPT !.progress = @ + 1]
                             ELSE o[i]
                /\ disk'[CHALLENGES_FILE] = ListDoc(n)

QuestStep ==
    LET old == disk[QUESTS_FILE].items
        new == disk'[QUESTS_FILE].items
    IN /\ Len(new) >= Len(old)
       /\ \A i \in 1..Len(old) :
             /\ new[i].name = old[i].name
             /\ new[i].tasks = old[i].tasks
             /\ old[i].completed => new[i].completed
       /\ (lastOp'.op = "start_quest"
              /\ InRange(lastOp'.arg - 1, Len(mem["quests"].items)))
          => LET o == mem["quests"].items
                 n == mem'["quests"].items
             IN /\ Len(n) = Len(o)
                /\ \A i \in 1..Len(o) :
                      n[i] = IF i = lastOp'.arg
                             THEN [o[i] EXCEPT !.completed = TRUE]
                             ELSE o[i]
                /\ o[lastOp'.arg].completed => n = o
                /\ disk'[QUESTS_FILE] = ListDoc(n)

----------------------------------------------------------------------------
(* The title and avatar cycles: profile.json starts with any title of      *)
(* titles and any colour of avatar_colors, or with values outside them.    *)

CycleStartTitles == Range(titles) \cup {"Wanderer"}
CycleStartColors == Range(avatar_colors) \cup {"orange"}

InitCycle ==
    \E t \in CycleStartTitles, a \in CycleStartColors :
        InitWith([FreshDisk EXCEPT ![PROFILE_FILE] =
                     ObjDoc([name |-> <<"Nova">>, title |-> t, avatar_color |-> a])])

NextCycle ==
    \/ ProfileScreen
    \/ action_next_title
    \/ action_next_avatar

SpecCycle == InitCycle /\ [][NextCycle]_vars

(* the setter applied n times *)
RECURSIVE CycleTimes(_, _, _)
CycleTimes(seq, x, n) == IF n = 0 THEN x ELSE CycleTimes(seq, CycleNext(seq, x), n - 1)

(* the position after position i of a cycle of n positions *)
After(i, n) == IF i = n THEN 1 ELSE i + 1

SetterOutcome(op, field, seq) ==
    lastOp.op = op
    => LET old == lastOp.preMem["profile"].rec[field]
           new == mem["profile"].rec[field]
       IN /\ new \in Range(seq)
          /\ old \in Range(seq) => new = seq[After(IndexOf(seq, old), Len(seq))]
          /\ \A f \in ProfileFields \ {field} :
                mem["profile"].rec[f] = lastOp.preMem["profile"].rec[f]

(* C25: action_next_title and action_next_avatar put the element of the    *)
(* list that follows the current one, the first following the last, and    *)
(* leave the other fields; a value outside the list is replaced by one of  *)
(* the list; and for the value the screen holds, when it is of the list,   *)
(* len(list) calls of the setter give that value again.                    *)
ProfileCycles ==
    /\ SetterOutcome("next_title", "title", titles)
    /\ SetterOutcome("next_avatar", "avatar_color", avatar_colors)
    /\ mem["profile"].open
       => LET p == mem["profile"].rec IN
          /\ p.title \in Range(titles)
                => CycleTimes(titles, p.title, Len(titles)) = p.title
          /\ p.avatar_color \in Range(avatar_colors)
                => CycleTimes(avatar_colors, p.avatar_color, Len(avatar_colors))
                      = p.avatar_color
          /\ CycleNext(titles, p.title) \in Range(titles)
          /\ CycleNext(avatar_colors, p.avatar_color) \in Range(avatar_colors)

(* the last title was cycled to the first, from a profile whose colour had *)
(* been moved into the list                                                *)
TitleWrappedAround ==
    /\ lastOp.op = "next_title"
    /\ lastOp.preMem["profile"].rec.title = "Celestial Alchemist"
    /\ mem["profile"].rec.title = "Stargazer"
    /\ disk[PROFILE_FILE].map.avatar_color = "orange"
    /\ mem["profile"].rec.avatar_color \in Range(avatar_colors)

----------------------------------------------------------------------------
(* The four writers of settings.json together: the mission streak, the     *)
(* reflection streak, the gate and the theme.  settings.json starts        *)
(* absent, or with a theme, a mission streak and a key none of them        *)
(* writes.                                                                 *)

StartSharedSettingsDocs ==
    {Absent,
     ObjDoc([volume |-> "low", theme |-> "nebula",
             mission_streak |-> 1, last_mission_day |-> Iso(0)])}

SettingsMissionKeys == 1..2

InitSettings ==
    \E st \in StartSharedSettingsDocs :
        InitWith([FreshDisk EXCEPT ![SETTINGS_FILE] = st,
                                   ![LORE_FILE] = ListDoc(<<"The stars remember.">>)])

NextSettings ==
    \/ MissionsScreen
    \/ \E n \in SettingsMissionKeys : action_toggle_mission(n)
    \/ action_record_reflection(<<"a">>)
    \/ action_goto_temple_gate
    \/ action_cycle_theme
    \/ NextDay

SpecSettings == InitSettings /\ [][NextSettings]_vars

(* the keys of settings.json a handler may write *)
OwnKeys(op) ==
    CASE op = "toggle_mission" -> {"mission_streak", "last_mission_day"}
      [] op = "record_reflection" -> {"reflect_streak", "last_reflect_day"}
      [] op = "goto_temple_gate" -> {"last_cosmic_event_date"}
      [] op = "cycle_theme" -> {"theme", "last_cosmic_event_date"}
      [] OTHER -> {}

SettingsStep ==
    LET old == disk[SETTINGS_FILE].map
        new == disk'[SETTINGS_FILE].map
    IN /\ DOMAIN old \subseteq DOMAIN new
       /\ \A k \in DOMAIN new \ OwnKeys(lastOp'.op) : k \in DOMAIN old /\ new[k] = old[k]

(* C26: a step of any of the four writers leaves every key of              *)
(* settings.json that is not its own with the value it had, adds no key    *)
(* that is not its own, and removes none.                                  *)
SettingsKeyFrame == [][SettingsStep]_vars

SettingsKeys ==
    {"mission_streak", "last_mission_day", "reflect_streak", "last_reflect_day",
     "last_cosmic_event_date", "theme"}

(* the gate, the theme and the reflection streak have written beside a    *)
(* mission streak and a key none of them owns                              *)
AllSettingsKeysWritten ==
    /\ DOMAIN disk[SETTINGS_FILE].map = SettingsKeys \cup {"volume"}
    /\ disk[SETTINGS_FILE].map["volume"] = "low"
    /\ disk[SETTINGS_FILE].map["theme"] = "aurora"
    /\ MissionKeys(disk) = [last |-> Iso(0), streak |-> 1]

(* the streak and the last day stored under two keys agree with the dates  *)
(* on which the update ran                                                 *)
StreakPairSound(streakKey, dayKey, updated, lastDate) ==
    LET m == disk[SETTINGS_FILE].map IN
    /\ (streakKey \in DOMAIN m) <=> (dayKey \in DOMAIN m)
    /\ (dayKey \in DOMAIN m) <=> updated
    /\ updated => /\ m[streakKey] >= 1
                  /\ m[dayKey] = lastDate
                  /\ \E d \in 1..today : m[dayKey] = Iso(d)

(* C27: starting without settings, mission_streak is there exactly when    *)
(* last_mission_day is, and is then at least 1, and last_mission_day is    *)
(* the date of the last update, which is not after today; the same for     *)
(* reflect_streak and last_reflect_day.                                    *)
StreakKeysSound ==
    streakHist.from_empty
    => /\ StreakPairSound("mission_streak", "last_mission_day",
                          streakHist.days # {},
                          IF streakHist.days # {} THEN Iso(Max(streakHist.days))
                          ELSE None)
       /\ StreakPairSound("reflect_streak", "last_reflect_day",
                          reflHist.log # <<>>,
                          IF reflHist.log # <<>>
                          THEN reflHist.log[Len(reflHist.log)].date ELSE None)

(* from no settings, missions were completed on two dates and a reflection *)
(* was recorded                                                            *)
BothStreaksStored ==
    /\ streakHist.from_empty
    /\ MissionKeys(disk) = [last |-> Iso(2), streak |-> 2]
    /\ ReflectKeys(disk).streak = 1

====
